---------------------------- MODULE Spec2Model ----------------------------
(***************************************************************************)
(* A model of the tool-orchestrating chat-completion proxy:                *)
(*   proxy_server/server.py        chat_completions, _aggressive_trim_...  *)
(*   proxy_server/tool_handler.py  ToolHandler, run_tool_calls_async       *)
(*   proxy_server/n8n_discovery.py ToolDiscovery, _generate_variants       *)
(*   proxy_server/utils_tool_calls.py extract_tool_calls                   *)
(*                                                                         *)
(* Python strings are sequences of one-character strings, so that the      *)
(* string operations of the code (split, lower, replace, re.sub) are       *)
(* computed and not assumed.  None and the empty string are both << >>.    *)
(***************************************************************************)
EXTENDS Integers, Sequences, FiniteSets, TLC

(***************************************************************************)
(* Strings                                                                 *)
(***************************************************************************)
UpperChars == <<"A","B","C","D","E","F","G","H","I","J","K","L","M",
                "N","O","P","Q","R","S","T","U","V","W","X","Y","Z">>

LowerChars == <<"a","b","c","d","e","f","g","h","i","j","k","l","m",
                "n","o","p","q","r","s","t","u","v","w","x","y","z">>

DigitChars == {"0","1","2","3","4","5","6","7","8","9"}

Range(f) == {f[i] : i \in DOMAIN f}

\* the character class [0-9A-Za-z]
IsAlnum(c) == c \in Range(UpperChars) \cup Range(LowerChars) \cup DigitChars

IsSpace(c) == c \in {" ", "\t", "\n"}

\* str.lower() on one character
LowerCh(c) ==
    IF c \in Range(UpperChars)
    THEN LowerChars[CHOOSE i \in DOMAIN UpperChars : UpperChars[i] = c]
    ELSE c

\* str.lower()
lower(s) == [i \in DOMAIN s |-> LowerCh(s[i])]

\* str.replace(a, b) for single characters a and b
replace(s, a, b) == [i \in DOMAIN s |-> IF s[i] = a THEN b ELSE s[i]]

\* re.sub(r'[^0-9A-Za-z]', '', s)
RECURSIVE RemoveNonAlnum(_)
RemoveNonAlnum(s) ==
    IF s = << >> THEN << >>
    ELSE (IF IsAlnum(Head(s)) THEN <<Head(s)>> ELSE << >>)
         \o RemoveNonAlnum(Tail(s))

\* str.strip()
RECURSIVE LStrip(_)
LStrip(s) == IF s # << >> /\ IsSpace(Head(s)) THEN LStrip(Tail(s)) ELSE s

RECURSIVE RStrip(_)
RStrip(s) ==
    IF s # << >> /\ IsSpace(s[Len(s)])
    THEN RStrip(SubSeq(s, 1, Len(s) - 1))
    ELSE s

strip(s) == RStrip(LStrip(s))

\* s.split('.')[-1]: what follows the last dot (all of s when it has none)
RECURSIVE LastSegment(_)
LastSegment(s) ==
    IF \E i \in DOMAIN s : s[i] = "."
    THEN LastSegment(Tail(s))
    ELSE s

HasDot(s) == \E i \in DOMAIN s : s[i] = "."

\* f'functions.{s}'
FunctionsPrefix == <<"f","u","n","c","t","i","o","n","s",".">>

WithFunctions(s) == FunctionsPrefix \o s

\* re.split(r'[^0-9A-Za-z]+', s): the pieces, empty ones included; cur is the
\* piece being read
RECURSIVE SplitNonAlnum(_, _)
SplitNonAlnum(s, cur) ==
    IF s = << >> THEN <<cur>>
    ELSE IF IsAlnum(Head(s))
         THEN SplitNonAlnum(Tail(s), Append(cur, Head(s)))
         ELSE <<cur>> \o SplitNonAlnum(Tail(s), << >>)

\* _tokenize_name: the non-empty pieces, in order
_tokenize_name(s) == SelectSeq(SplitNonAlnum(s, << >>), LAMBDA t : t # << >>)

\* sep.join(parts) for a one-character separator
RECURSIVE Join(_, _)
Join(parts, sep) ==
    IF parts = << >> THEN << >>
    ELSE IF Len(parts) = 1 THEN parts[1]
    ELSE parts[1] \o <<sep>> \o Join(Tail(parts), sep)

\* _generate_variants: the set of spellings a name is registered and looked
\* up under
_generate_variants(s0) ==
    IF s0 = << >> THEN {}
    ELSE
      LET s      == strip(s0)
          toks   == _tokenize_name(s)
          joined == Join(toks, "_")
      IN  {s, lower(s)}
          \cup {replace(s, " ", "_"), replace(s, " ", "-"), replace(s, "-", "_"),
                replace(s, "_", "-"), replace(s, "_", " ")}
          \cup {RemoveNonAlnum(s), lower(RemoveNonAlnum(s))}
          \cup (IF HasDot(s) THEN {LastSegment(s), lower(LastSegment(s))} ELSE {})
          \cup UNION {{toks[i], lower(toks[i]), WithFunctions(toks[i]),
                       WithFunctions(lower(toks[i]))} : i \in DOMAIN toks}
          \cup (IF joined # << >>
                THEN {joined, lower(joined), replace(joined, "_", "-")}
                ELSE {})


(***************************************************************************)
(* Bounds and configuration                                                *)
(***************************************************************************)
\* settings.max_tool_iterations
MAX_TOOL_ITERATIONS == 3

\* ToolDiscovery.ttl, scaled down: the clock of the model counts in units
\* in which a cache entry lives for ttl ticks
ttl == 1

\* how many times the clock may tick during one inbound request
MaxTicks == 1

\* int(time.time()) when the request arrives: the process has been up for
\* longer than ttl, so a cache that was never refreshed (_last_refresh = 0)
\* is stale
NowStart == ttl + 2

MaxNow == NowStart + MaxTicks

(***************************************************************************)
(* Names used by the configurations and by the model's tool calls          *)
(***************************************************************************)
N_add       == <<"a","d","d">>
N_math_add  == <<"m",".","a","d","d">>
N_calc_add  == <<"c","a","l","c",".","a","d","d">>
N_mul       == <<"m","u","l">>
N_fn_mul    == <<"f","u","n","c","t","i","o","n","s",".","m","u","l">>
N_Joke      == <<"J","o","k","e">>
N_joke      == <<"j","o","k","e">>
N_Joke_API  == <<"J","o","k","e","_","A","P","I">>
N_JokeSpAPI == <<"J","o","k","e"," ","A","P","I">>
N_joke_api  == <<"j","o","k","e","_","a","p","i">>
N_joke_dash_api == <<"j","o","k","e","-","a","p","i">>
N_Cat       == <<"C","a","t">>
N_CatSpAPI  == <<"C","a","t"," ","A","P","I">>
N_Fetch     == <<"F","e","t","c","h">>
N_nope      == <<"n","o","p","e">>
N_unknown_tool == <<"u","n","k","n","o","w","n","_","t","o","o","l">>

T_webhook   == <<"n","8","n",".","W","e","b","h","o","o","k">>
T_httptool  == <<"n","8","n",".","h","t","t","p","R","e","q","u","e","s","t","T","o","o","l">>
T_set       == <<"n","8","n",".","s","e","t">>

S_dot_webhook  == <<".","w","e","b","h","o","o","k">>
S_dot_httptool == <<".","h","t","t","p","r","e","q","u","e","s","t","t","o","o","l">>

\* str.endswith
EndsWith(s, suf) ==
    Len(s) >= Len(suf) /\ SubSeq(s, Len(s) - Len(suf) + 1, Len(s)) = suf

(***************************************************************************)
(* Endpoints.  A URL is kept as its parts: f"{base_url}/webhook/{id}/{tail}"*)
(* is [base |-> "webhook", id |-> id, tail |-> tail]; NoUrl is None.       *)
(***************************************************************************)
NoUrl == [base |-> "none", id |-> << >>, tail |-> << >>]

StaticUrl(n) == [base |-> "static", id |-> n, tail |-> << >>]

AliasUrl(n) == [base |-> "alias", id |-> n, tail |-> << >>]

WebhookUrl(id, tail) == [base |-> "webhook", id |-> id, tail |-> tail]

\* ToolDiscovery._auth_headers, then `headers or None`
_auth_headers == "X-N8N-API-KEY"

\* the static registry of ToolHandler: TOOL_REGISTRY_JSON.  "add" is a
\* plain URL string, "functions.mul" an object with url and headers.
registry ==
    (N_add :> [url |-> StaticUrl(N_add), headers |-> "none"])
    @@ (N_math_add :> [url |-> StaticUrl(N_math_add), headers |-> "none"])
    @@ (N_fn_mul :> [url |-> StaticUrl(N_mul), headers |-> "Bearer"])

\* dict.get on the registry: None (NoEntry) when the key is absent
NoEntry == [url |-> NoUrl, headers |-> "none"]

RegistryGet(n) == IF n \in DOMAIN registry THEN registry[n] ELSE NoEntry

\* aliases.json of ToolDiscovery
_aliases ==
    (N_joke :> [toolType |-> "alias", url |-> AliasUrl(N_joke), headers |-> "none",
                node |-> << >>, workflow |-> << >>])
    @@ (N_math_add :> [toolType |-> "alias", url |-> AliasUrl(N_math_add),
                       headers |-> "none", node |-> << >>, workflow |-> << >>])

(***************************************************************************)
(* The workflow API.  A snapshot is the list GET /api/v1/workflows returns.*)
(***************************************************************************)
Node(name_, webhookId, path, type, url) ==
    [name |-> name_, webhookId |-> webhookId, path |-> path, type |-> type,
     url |-> url]

Workflow(id, name_, active, nodes) ==
    [id |-> id, name |-> name_, active |-> active, nodes |-> nodes]

\* two active workflows: one with a chat trigger "Cat API", one with a chat
\* trigger "Joke API" and an HTTP call tool
WorkflowsA ==
    << Workflow(<<"3">>, N_Cat, TRUE,
                << Node(N_CatSpAPI, <<"w","0">>, << >>, T_set, << >>) >>),
       Workflow(<<"7">>, N_Joke, TRUE,
                << Node(N_JokeSpAPI, <<"w","1">>, << >>, T_set, << >>),
                   Node(N_Fetch, << >>, << >>, T_httptool, <<"h","t","t","p",":","x">>) >>) >>

\* the same API later: the workflow was renamed and rebuilt around a classic
\* webhook node; an inactive workflow is listed too
WorkflowsB ==
    << Workflow(<<"8">>, N_mul, FALSE,
                << Node(N_mul, <<"w","2">>, << >>, T_set, << >>) >>),
       Workflow(<<"9">>, N_Joke, TRUE,
                << Node(N_Joke, << >>, <<"/","j","o","k","e">>, T_webhook, << >>) >>),
       Workflow(<<"5">>, N_Fetch, TRUE,
                << Node(N_Fetch, << >>, <<"f">>, T_webhook, << >>) >>) >>

Snapshots == {WorkflowsA, WorkflowsB}

(***************************************************************************)
(* ToolDiscovery.refresh: building the mapping                             *)
(***************************************************************************)
\* path.strip('/')
RECURSIVE StripSlashes(_)
StripSlashes(s) ==
    IF s # << >> /\ Head(s) = "/" THEN StripSlashes(Tail(s))
    ELSE IF s # << >> /\ s[Len(s)] = "/" THEN StripSlashes(SubSeq(s, 1, Len(s) - 1))
    ELSE s

\* a registration that assigns without the test `if v not in mapping`
RegisterVariantsOverwriting(mapping, variants, entry) ==
    [v \in DOMAIN mapping \cup variants |->
        IF v \in variants THEN entry ELSE mapping[v]]

\* `for v in variants: if v not in mapping: mapping[v] = entry`
RegisterVariants(mapping, variants, entry) ==
    [v \in DOMAIN mapping \cup variants |->
        IF v \in DOMAIN mapping THEN mapping[v] ELSE entry]

\* `for endpoint in endpoints: entry = dict(entry_base); entry['url'] = endpoint; ...`
RECURSIVE RegisterEndpoints(_, _, _, _)
RegisterEndpoints(mapping, variants, endpoints, entry_base) ==
    IF endpoints = << >> THEN mapping
    ELSE RegisterEndpoints(
             RegisterVariants(mapping, variants,
                              [entry_base EXCEPT !.url = Head(endpoints)]),
             variants, Tail(endpoints), entry_base)

\* the body of `for node in nodes` for one node of workflow wf
RegisterNode(mapping, wf, node) ==
    LET wf_name   == wf.name
        path      == node.path
        node_name == IF node.name # << >> THEN node.name ELSE wf_name
        variants  == _generate_variants(node_name)
                     \cup _generate_variants(wf_name)
                     \cup (IF path # << >> THEN _generate_variants(StripSlashes(path))
                           ELSE {})
        ntype_l   == lower(node.type)
        entry_base == [toolType |-> "webhook", url |-> NoUrl,
                       headers |-> _auth_headers, node |-> node_name,
                       workflow |-> wf_name]
    IN  IF node.webhookId # << >>
        THEN RegisterEndpoints(mapping, variants,
                 (IF path # << >> THEN <<WebhookUrl(node.webhookId, path)>> ELSE << >>)
                 \o << WebhookUrl(node.webhookId, << >>),
                       WebhookUrl(node.webhookId, <<"c","h","a","t">>),
                       WebhookUrl(node.webhookId, <<"w","e","b","h","o","o","k">>) >>,
                 entry_base)
        ELSE IF EndsWith(ntype_l, S_dot_webhook)
        THEN RegisterEndpoints(mapping, variants,
                 (IF path # << >>
                  THEN <<WebhookUrl(wf.id, <<"w","e","b","h","o","o","k","/">> \o path)>>
                  ELSE << >>)
                 \o << WebhookUrl(wf.id, << >>) >>,
                 entry_base)
        ELSE IF EndsWith(ntype_l, S_dot_httptool)
        THEN LET tool_key == IF strip(node_name) # << >> THEN strip(node_name)
                             ELSE IF wf_name # << >> THEN wf_name ELSE wf.id
                 tool_variants == _generate_variants(tool_key)
                                  \cup _generate_variants(wf_name)
             IN  RegisterVariants(mapping, tool_variants,
                     [toolType |-> "httpRequestTool", node |-> node_name,
                      workflow |-> wf_name, parameters |-> [url |-> node.url],
                      headers |-> _auth_headers])
        ELSE mapping

RECURSIVE RegisterNodes(_, _, _)
RegisterNodes(mapping, wf, nodes) ==
    IF nodes = << >> THEN mapping
    ELSE RegisterNodes(RegisterNode(mapping, wf, Head(nodes)), wf, Tail(nodes))

\* the body of `for wf in items` for one workflow: inactive ones are skipped
RegisterWorkflow(mapping, wf) ==
    IF ~wf.active THEN mapping ELSE RegisterNodes(mapping, wf, wf.nodes)

\* the whole loop of refresh over the workflows the API returned
RECURSIVE BuildMapping(_, _)
BuildMapping(mapping, items) ==
    IF items = << >> THEN mapping
    ELSE BuildMapping(RegisterWorkflow(mapping, Head(items)), Tail(items))

\* `mapping = {}`
EmptyMapping == << >>

\* the complete mapping one successful refresh builds from each snapshot
BuiltMappings == [items \in Snapshots |-> BuildMapping(EmptyMapping, items)]

MappingOf(items) == BuiltMappings[items]

\* discovered.get('url') / entry.get('url'): None when the entry has no url
EntryUrl(e) == IF "url" \in DOMAIN e THEN e.url ELSE NoUrl

(***************************************************************************)
(* ToolDiscovery.get: the lookup                                           *)
(***************************************************************************)
\* the candidate spellings of the key that get() tries on the cache
Candidates(key) ==
    {key, lower(key)}
    \cup _generate_variants(key)
    \cup (IF HasDot(key) THEN {LastSegment(key), lower(LastSegment(key))} ELSE {})

\* the names a tool call of the model may carry
ToolNames == {N_add, N_math_add, N_calc_add, N_mul, N_fn_mul, N_Joke, N_joke,
              N_Joke_API, N_JokeSpAPI, N_joke_api, N_joke_dash_api, N_Fetch,
              N_nope, N_unknown_tool}

CandidateTable == [key \in ToolNames |-> Candidates(key)]

CandidatesOf(key) ==
    IF key \in ToolNames THEN CandidateTable[key] ELSE Candidates(key)

\* the alias table is consulted first: exact key, then lower-case
AliasHit(key) == key \in DOMAIN _aliases \/ lower(key) \in DOMAIN _aliases

AliasEntry(key) ==
    IF key \in DOMAIN _aliases THEN _aliases[key] ELSE _aliases[lower(key)]

\* a cache that counts as stale at the age of ttl already
IsStaleAtTtl(now_, last_refresh) == (now_ - last_refresh) >= ttl

\* `(now - self._last_refresh) > self.ttl`
IsStale(now_, last_refresh) == (now_ - last_refresh) > ttl

\* the entries `for c in candidates: if c in self._cache: return ...` can
\* return; the iteration order of a set of strings is not fixed by the code
CacheHits(cache, key) == {cache[c] : c \in CandidatesOf(key) \cap DOMAIN cache}

(***************************************************************************)
(* Messages and payload size.  A message is a Python dict that several     *)
(* lists may hold at once (prepared_messages, messages_loop, the request's *)
(* list, the enforcer's copy), so messages live in a heap and the lists    *)
(* are sequences of heap indices.  A content is a text, of which `keep`    *)
(* leading characters are left, followed by `dots` characters of           *)
(* truncation marker.                                                      *)
(***************************************************************************)
Content(text, n) == [text |-> text, keep |-> n, dots |-> 0]

ContentLen(c) == c.keep + c.dots

\* a content that json.dumps cannot serialize (a bytes value)
BytesContent == [text |-> "b", keep |-> 0, dots |-> 0, bytes |-> TRUE]

\* json.dumps(req) returns: every content is a str
Serializable(heap_, req) ==
    \A k \in DOMAIN req.messages :
        "bytes" \notin DOMAIN heap_[req.messages[k]].content

Message(role, name_, content) ==
    [role |-> role, name |-> name_, content |-> content]

\* content[:cap] + '...'
TruncMarkerLen == 3

\* a cut that keeps the markers of the cuts made before it
TruncateKeepingMarkers(c, cap) ==
    [c EXCEPT !.keep = IF cap <= c.keep THEN cap ELSE c.keep,
              !.dots = c.dots + TruncMarkerLen]

Truncate(c, cap) ==
    IF cap <= c.keep
    THEN [c EXCEPT !.keep = cap, !.dots = TruncMarkerLen]
    ELSE [c EXCEPT !.dots = (cap - c.keep) + TruncMarkerLen]

\* len(json.dumps(...)) of the parts of a request: the fixed fields, each
\* message's keys and punctuation, the tools declaration of the caller
RequestOverhead == 90

MessageOverhead == 33

ToolsDeclSize == 150

MessageSize(m) == MessageOverhead + ContentLen(m.content)

RECURSIVE SumSizes(_, _)
SumSizes(heap_, ids) ==
    IF ids = << >> THEN 0
    ELSE MessageSize(heap_[Head(ids)]) + SumSizes(heap_, Tail(ids))

\* len(json.dumps(req).encode('utf-8'))
PayloadSize(heap_, req) ==
    RequestOverhead + SumSizes(heap_, req.messages)
    + (IF req.tools THEN ToolsDeclSize ELSE 0)

\* settings.max_upstream_payload_bytes
MAX_UPSTREAM_PAYLOAD_BYTES == 200000

IsSystem(heap_, i) == heap_[i].role = "system"

\* `while non_system and size(preserved_system + non_system) > target: non_system.pop(0)`
RECURSIVE DropNewest(_, _, _, _, _)
\* a loop that pops the last message: non_system.pop()
DropNewest(heap_, req, preserved_system, non_system, target) ==
    IF non_system # << >>
       /\ PayloadSize(heap_, [req EXCEPT !.messages = preserved_system \o non_system])
            > target
    THEN DropNewest(heap_, req, preserved_system,
                    SubSeq(non_system, 1, Len(non_system) - 1), target)
    ELSE non_system

RECURSIVE DropOldestKeepsLast(_, _, _, _, _)
\* a loop that stops at the last message: `while len(non_system) > 1 and ...`
DropOldestKeepsLast(heap_, req, preserved_system, non_system, target) ==
    IF Len(non_system) > 1
       /\ PayloadSize(heap_, [req EXCEPT !.messages = preserved_system \o non_system])
            > target
    THEN DropOldestKeepsLast(heap_, req, preserved_system, Tail(non_system), target)
    ELSE non_system

RECURSIVE DropOldest(_, _, _, _, _)
DropOldest(heap_, req, preserved_system, non_system, target) ==
    IF non_system # << >>
       /\ PayloadSize(heap_, [req EXCEPT !.messages = preserved_system \o non_system])
            > target
    THEN DropOldest(heap_, req, preserved_system, Tail(non_system), target)
    ELSE non_system

\* the drop_oldest trimming of chat_completions (pre-flight and follow-up):
\* the request's new message list
TrimDropOldest(heap_, req, target) ==
    LET preserved_system == SelectSeq(req.messages, LAMBDA i : IsSystem(heap_, i))
        non_system       == SelectSeq(req.messages, LAMBDA i : ~IsSystem(heap_, i))
    IN  preserved_system \o DropOldest(heap_, req, preserved_system, non_system, target)

\* settings.trim_messages_strategy == 'drop_oldest' (the default)
TRIM_MESSAGES_STRATEGY == "drop_oldest"

TrimIfTooLarge(heap_, req) ==
    IF PayloadSize(heap_, req) > MAX_UPSTREAM_PAYLOAD_BYTES
       /\ TRIM_MESSAGES_STRATEGY = "drop_oldest"
    THEN [req EXCEPT !.messages = TrimDropOldest(heap_, req, MAX_UPSTREAM_PAYLOAD_BYTES)]
    ELSE req

(***************************************************************************)
(* _aggressive_trim_request.  It returns the request it built and, since   *)
(* stages 2 and 4 assign m['content'] on the caller's message dicts, the   *)
(* heap as it is afterwards.                                               *)
(***************************************************************************)
Caps == <<1024, 512, 256, 128>>

LastResortCap == 120

\* one pass `for m in req['messages']: if len(m['content']) > cap: truncate`
TruncateAll(heap_, ids, cap, onlyNonSystem) ==
    [i \in DOMAIN heap_ |->
        IF (\E k \in DOMAIN ids : ids[k] = i)
           /\ ContentLen(heap_[i].content) > cap
           /\ (onlyNonSystem => heap_[i].role # "system")
        THEN [heap_[i] EXCEPT !.content = Truncate(@, cap)]
        ELSE heap_[i]]

\* stage 2: the caps in turn, returning at the first that fits
RECURSIVE TruncateStage(_, _, _, _)
TruncateStage(heap_, req, caps, target) ==
    IF caps = << >> THEN [fits |-> FALSE, heap |-> heap_]
    ELSE LET h == TruncateAll(heap_, req.messages, Head(caps), FALSE)
         IN  IF PayloadSize(h, req) <= target
             THEN [fits |-> TRUE, heap |-> h]
             ELSE TruncateStage(h, req, Tail(caps), target)

\* an except clause that returns a request without its messages
OnTrimFailureDropsMessages(heap_, github_request) ==
    [req |-> [github_request EXCEPT !.messages = << >>], heap |-> heap_,
     stage |-> -1]

\* `except Exception: logger.exception(...); return github_request`
OnTrimFailure(heap_, github_request) ==
    [req |-> github_request, heap |-> heap_, stage |-> -1]

_aggressive_trim_request(heap_, github_request, target_bytes) ==
    IF ~Serializable(heap_, github_request)
    THEN OnTrimFailure(heap_, github_request)
    ELSE IF PayloadSize(heap_, github_request) <= target_bytes
    THEN [req |-> github_request, heap |-> heap_, stage |-> 0]
    ELSE
      LET req1 == [github_request EXCEPT
                     !.messages = TrimDropOldest(heap_, github_request, target_bytes)]
      IN  IF PayloadSize(heap_, req1) <= target_bytes
          THEN [req |-> req1, heap |-> heap_, stage |-> 1]
          ELSE
            LET t2 == IF req1.messages # << >>
                      THEN TruncateStage(heap_, req1, Caps, target_bytes)
                      ELSE [fits |-> FALSE, heap |-> heap_]
            IN  IF t2.fits
                THEN [req |-> req1, heap |-> t2.heap, stage |-> 2]
                ELSE
                  LET req3 == [req1 EXCEPT !.tools = FALSE]
                  IN  IF req1.tools /\ PayloadSize(t2.heap, req3) <= target_bytes
                      THEN [req |-> req3, heap |-> t2.heap, stage |-> 3]
                      ELSE [req |-> req3,
                            heap |-> TruncateAll(t2.heap, req3.messages,
                                                 LastResortCap, TRUE),
                            stage |-> 4]

(***************************************************************************)
(* Dicts of the wire format are functions on their keys.                   *)
(***************************************************************************)
\* d.get(k, default)
Get(d, k, default) == IF k \in DOMAIN d THEN d[k] ELSE default

\* {} and, for a name, None
EmptyDict == << >>

None == << >>

(***************************************************************************)
(* extract_tool_calls.  A text is a sequence of parts: prose, or the text  *)
(* of a JSON object, either bare or inside a ```json fence.  An object     *)
(* part tells whether json.loads accepts it (parses), whether it has no    *)
(* inner braces (flat: only then can INLINE_TOOL_OBJ match it), and the    *)
(* value of its "tool_call" key: none, a dict, or a truthy non-dict.  An   *)
(* unclosed fence is a ```json fence whose text opens a brace and never    *)
(* closes it.  Between two parts there is white space only.                *)
(***************************************************************************)
Prose == [kind |-> "prose"]

UnclosedFence == [kind |-> "unclosed_fence"]

ObjectPart(fenced, parses, flat, tool_call) ==
    [kind |-> "object", fenced |-> fenced, parses |-> parses, flat |-> flat,
     tool_call |-> tool_call]

TcDict(d) == [t |-> "dict", v |-> d]

TcOther == [t |-> "other", v |-> EmptyDict]

TcNone == [t |-> "none", v |-> EmptyDict]

\* the body shared by the three passes: json.loads, then
\* `if isinstance(parsed, dict) and parsed.get('tool_call')`, then the append;
\* tc.get raises on a non-dict, which the pass's except swallows
IntentsOfCandidate(part) ==
    IF part.parses /\ part.tool_call.t = "dict"
    THEN << ("name" :> Get(part.tool_call.v, "name", None))
            @@ ("args" :> Get(part.tool_call.v, "arguments", EmptyDict)) >>
    ELSE << >>

RECURSIVE IntentsOfCandidates(_)
IntentsOfCandidates(parts) ==
    IF parts = << >> THEN << >>
    ELSE IntentsOfCandidate(Head(parts)) \o IntentsOfCandidates(Tail(parts))

\* json.loads(content.strip()) sees one JSON value only when the whole text
\* is one bare object
DirectCandidates(parts) ==
    IF Len(parts) = 1 /\ parts[1].kind = "object" /\ ~parts[1].fenced
    THEN parts ELSE << >>

\* a part that begins with ```
OpensFence(q) == q.kind = "unclosed_fence" \/ (q.kind = "object" /\ q.fenced)

\* where the match that began at an unclosed fence ends: at the first `}`
\* that is followed by white space and ```, the end of a fenced object or
\* of a bare object that stands right before a fence; 0 when there is none
SpanEnd(rest) ==
    LET ends == {k \in DOMAIN rest :
                   /\ rest[k].kind = "object"
                   /\ \/ rest[k].fenced
                      \/ (k < Len(rest) /\ OpensFence(rest[k + 1]))}
    IN  IF ends = {} THEN 0 ELSE CHOOSE k \in ends : \A j \in ends : k <= j

\* TOOL_JSON_BLOCK.findall(content): ```json\s*(\{.*?\})\s*``` matches a
\* fenced object by itself; begun at an unclosed fence it runs on to the
\* next `}` before a ```, takes those backquotes with it, and what it
\* captured does not parse
RECURSIVE FencedCandidates(_)
FencedCandidates(parts) ==
    IF parts = << >> THEN << >>
    ELSE IF Head(parts).kind = "object" /\ Head(parts).fenced
    THEN << Head(parts) >> \o FencedCandidates(Tail(parts))
    ELSE IF Head(parts).kind = "unclosed_fence" /\ SpanEnd(Tail(parts)) > 0
    THEN LET rest == Tail(parts)
             k    == SpanEnd(rest)
             next == IF rest[k].fenced THEN k + 1 ELSE k + 2
         IN  FencedCandidates(SubSeq(rest, next, Len(rest)))
    ELSE FencedCandidates(Tail(parts))

\* INLINE_TOOL_OBJ.findall(content): brace pairs without inner braces
InlineCandidates(parts) ==
    SelectSeq(parts, LAMBDA q : q.kind = "object" /\ q.flat
                                 /\ q.tool_call.t # "none")

extract_tool_calls(content) ==
    IF content.null \/ content.parts = << >> THEN << >>
    ELSE IntentsOfCandidates(DirectCandidates(content.parts))
         \o IntentsOfCandidates(FencedCandidates(content.parts))
         \o IntentsOfCandidates(InlineCandidates(content.parts))

Text(parts) == [null |-> FALSE, parts |-> parts]

NullContent == [null |-> TRUE, parts |-> << >>]

(***************************************************************************)
(* Upstream response bodies and transform_local_response                   *)
(***************************************************************************)
\* an argument value of a structured call: a JSON string (valid or not) or
\* a mapping
JsonString(valid, value) == [isStr |-> TRUE, valid |-> valid, value |-> value]

Mapping(value) == [isStr |-> FALSE, valid |-> TRUE, value |-> value]

\* json.dumps(m)
json_dumps(m) == JsonString(TRUE, m)

\* an OpenAI-style structured tool call
FunctionCall(name_, arguments) ==
    ("type" :> "function")
    @@ ("function" :> [name |-> name_, arguments |-> arguments])

AssistantMessage(content, tool_calls) ==
    [role |-> "assistant", content |-> content, tool_calls |-> tool_calls]

\* {'choices': [{'message': {...}}]}
ChoicesBody(content, tool_calls) ==
    [shape |-> "choices", content |-> content, tool_calls |-> tool_calls]

\* {'tool_calls': [{'name':..., 'args':...}], 'content': ...}
TopLevelBody(content, tool_calls) ==
    [shape |-> "top", content |-> content, tool_calls |-> tool_calls]

\* {'content': ...}
ContentBody(content) ==
    [shape |-> "content", content |-> content, tool_calls |-> << >>]

NoBody == [shape |-> "none", content |-> NullContent, tool_calls |-> << >>]

transform_local_response(local_response) ==
    IF local_response.shape = "none" THEN [choices |-> << >>]
    ELSE IF local_response.shape = "choices"
    THEN [choices |-> << [message |->
              AssistantMessage(local_response.content, local_response.tool_calls)] >>]
    ELSE IF local_response.tool_calls # << >>
    THEN [choices |-> << [message |->
              AssistantMessage(local_response.content,
                  [i \in DOMAIN local_response.tool_calls |->
                      FunctionCall(Get(local_response.tool_calls[i], "name", None),
                                   json_dumps(Get(local_response.tool_calls[i],
                                                  "args", EmptyDict)))])] >>]
    ELSE [choices |-> << [message |->
              AssistantMessage(local_response.content, << >>)] >>]

\* the collection of tool calls in one iteration of the non-streaming loop:
\* the structured calls of each choice, then the calls read from its text,
\* each rewrapped as {'name': tc.get('name'), 'args': tc.get('arguments', {})}
RewrapExtracted(tc) ==
    ("name" :> Get(tc, "name", None))
    @@ ("args" :> Get(tc, "arguments", EmptyDict))

RECURSIVE LoopToolCalls(_)
LoopToolCalls(choices) ==
    IF choices = << >> THEN << >>
    ELSE LET m == Head(choices).message
             extracted == IF ~m.content.null THEN extract_tool_calls(m.content)
                          ELSE << >>
         IN  m.tool_calls
             \o [i \in DOMAIN extracted |-> RewrapExtracted(extracted[i])]
             \o LoopToolCalls(Tail(choices))

(***************************************************************************)
(* run_tool_calls_async: the name and the arguments of one call            *)
(***************************************************************************)
IsFunctionCall(call) == "function" \in DOMAIN call

\* `json.loads(raw_args) if isinstance(raw_args, str) else (raw_args or {})`,
\* and {'raw': raw_args} when json.loads raises
ParseArguments(raw_args) ==
    IF raw_args.isStr
    THEN IF raw_args.valid THEN raw_args.value ELSE ("raw" :> raw_args)
    ELSE raw_args.value

CallName(call) ==
    LET n == IF IsFunctionCall(call) THEN call["function"].name
             ELSE IF Get(call, "name", None) # None THEN call["name"]
             ELSE Get(call, "function_name", None)
    IN  IF n = None THEN N_unknown_tool ELSE n

CallArgs(call) ==
    IF IsFunctionCall(call) THEN ParseArguments(call["function"].arguments)
    ELSE IF Get(call, "args", EmptyDict) # EmptyDict THEN call["args"]
    ELSE IF Get(call, "arguments", EmptyDict) # EmptyDict THEN call["arguments"]
    ELSE EmptyDict

(***************************************************************************)
(* The environment's inputs                                                *)
(***************************************************************************)
ArgsAB == ("a" :> 2) @@ ("b" :> 3)

ArgsQ == ("q" :> 1)

ToolCallObject(name_, arguments) ==
    TcDict(("name" :> name_) @@ ("arguments" :> arguments))

\* "The sum is 5"
B_final == ChoicesBody(Text(<<Prose>>), << >>)

\* the whole text is {"tool_call": {"name": "add", "arguments": {"a":2,"b":3}}}
B_text_add ==
    ChoicesBody(Text(<<ObjectPart(FALSE, TRUE, FALSE, ToolCallObject(N_add, ArgsAB))>>),
                << >>)

\* a structured call of Joke_API with its arguments as a JSON string, and in
\* the text some prose and a fenced call of an unknown tool
B_joke_nope ==
    ChoicesBody(Text(<<Prose,
                       ObjectPart(TRUE, TRUE, FALSE, ToolCallObject(N_nope, ArgsAB))>>),
                << FunctionCall(N_Joke_API, JsonString(TRUE, ArgsQ)) >>)

\* {'tool_calls': [{'name': 'mul', 'args': {...}}]} at the top level
B_top_mul ==
    TopLevelBody(NullContent, << ("name" :> N_mul) @@ ("args" :> ArgsAB) >>)

\* what the model may answer to any request
ModelOutputs == {B_final, B_text_add, B_joke_nope}

\* the status of an upstream answer
UpstreamStatuses == {200, 413, 429, 500}

\* what a tool endpoint may answer: a success, an error status, or no answer
\* at all (httpx.RequestError: refused, timed out)
ToolOutcomes == {"ok", "404", "500", "request_error"}

\* what GET /api/v1/workflows may give: a snapshot, or "fail" when the API
\* is unreachable or answers with an error status
ApiFail == [ok |-> FALSE, items |-> << >>]

ApiOk(items) == [ok |-> TRUE, items |-> items]

ApiOutcomes == {ApiFail} \cup {ApiOk(items) : items \in Snapshots}

\* the inbound requests; `tools` says whether request.tools is truthy, and
\* `decls` holds its elements
InMessage(role, text, n) == Message(role, None, Content(text, n))

\* {'type': ..., 'function': {'name': ...}}
ToolDecl(type, name_) == [type |-> type, name |-> name_]

Rq_tools ==
    [messages |-> << InMessage("user", "add 2 and 3", 11) >>,
     tools |-> TRUE, stream |-> FALSE,
     decls |-> << ToolDecl("function", N_add) >>]

Rq_long ==
    [messages |-> << InMessage("system", "be brief", 8),
                     InMessage("user", "old question", 150000),
                     InMessage("user", "new question", 120000) >>,
     tools |-> FALSE, stream |-> FALSE, decls |-> << >>]

\* one message that alone is above the ceiling (scripts/post_large_payload.py)
Rq_huge ==
    [messages |-> << InMessage("user", "AAAA", 500000) >>,
     tools |-> FALSE, stream |-> FALSE, decls |-> << >>]

\* bodies the validators of OpenAIChatRequest turn down
Rq_empty == [messages |-> << >>, tools |-> FALSE, stream |-> FALSE, decls |-> << >>]

Rq_retrieval == [Rq_tools EXCEPT !.decls = << ToolDecl("retrieval", N_add) >>]

Rq_unnamed ==
    [Rq_tools EXCEPT !.decls = << ToolDecl("function", N_add), ToolDecl("function", None) >>]

Requests == {Rq_tools, Rq_long, Rq_huge, Rq_empty, Rq_retrieval, Rq_unnamed}

\* @validator('messages'): `if not v: raise ValueError`
validate_messages_not_empty(v) == v # << >>

\* a validator that looks at the names only
validate_tools_format_names_only(v) == \A i \in DOMAIN v : v[i].name # None

\* @validator('tools'): every tool has type 'function' and a function name
validate_tools_format(v) ==
    \A i \in DOMAIN v : v[i].type = "function" /\ v[i].name # None

\* OpenAIChatRequest(**body) raises no ValidationError
Validates(rq) ==
    /\ validate_messages_not_empty(rq.messages)
    /\ validate_tools_format(rq.decls)

(***************************************************************************)
(* State                                                                   *)
(***************************************************************************)
VARIABLES
    pc,                \* where chat_completions stands (which await it is in)
    request,           \* the inbound OpenAIChatRequest
    heap,              \* the message dicts
    prepared_messages, \* list of heap indices
    messages_loop,     \* list of heap indices
    github_request,    \* [messages, tools, stream]
    local_resp,        \* the body of the last successful upstream answer
    iter,              \* iterations of `for _ in range(MAX_TOOL_ITERATIONS)` begun
    tool_calls,        \* the calls of the current iteration
    tool_results,      \* heap indices of the function messages made for them
    upstreamCalls,     \* chat-completion requests sent to the upstream
    resends,           \* those of them that were the re-send after a 413
    sent,              \* the last payload sent to the upstream
    reply,             \* what the caller got
    upstream_status,   \* response.status_code of the last answer of the upstream
    name,              \* execute_tool: the tool name
    args,              \* execute_tool: the arguments
    resolvedBy,        \* execute_tool: the layer that gave the first endpoint
    posts,             \* execute_tool: the POSTs made to tool endpoints
    refreshes,         \* execute_tool: the refreshes made: who called, what the API gave
    lookups,           \* execute_tool: calls of ToolDiscovery.get
    executed,          \* the calls execute_tool was run for, over the request
    _cache,            \* ToolDiscovery._cache
    _last_refresh,     \* ToolDiscovery._last_refresh
    now,               \* int(time.time())
    refresher,         \* the calls of ToolDiscovery.refresh made by other requests
    completed,         \* what those calls got from the API, in the order they ended
    observed,          \* the cache as a call of get by another request last read it
    target_bytes,      \* _aggressive_trim_request: the ceiling it is called with
    enforced,          \* _aggressive_trim_request: what its calls got and returned
    upstream_lines,    \* the lines the upstream stream delivers
    line_no,           \* how many of them aiter_lines has handed over
    prefix_mode,       \* generate: None, 'sse' or 'raw'
    yielded            \* the chunks the caller received, in order

vars == << pc, request, heap, prepared_messages, messages_loop, github_request,
           local_resp, iter, tool_calls, tool_results, upstreamCalls, resends,
           sent, reply, upstream_status,
           name, args, resolvedBy, posts, refreshes, lookups, executed,
           _cache, _last_refresh, now, refresher, completed, observed,
           target_bytes, enforced, upstream_lines, line_no, prefix_mode, yielded >>

handlerVars == << request, heap, prepared_messages, messages_loop, github_request,
                  local_resp, iter, tool_calls, tool_results, upstreamCalls,
                  resends, sent, reply >>

toolVars == << name, args, resolvedBy, posts, refreshes, lookups, executed >>

enforcerVars == << target_bytes, enforced >>

streamVars == << upstream_lines, line_no, prefix_mode, yielded >>

othersVars == << refresher, completed, observed, enforcerVars, streamVars,
                upstream_status >>

\* what the arrival of an upstream answer leaves alone
answerFrame == << _cache, _last_refresh, refresher, completed, observed,
                 enforcerVars, streamVars >>

discoveryVars == << _cache, _last_refresh, othersVars >>

NoReply == [status |-> 0, kind |-> "none", body |-> NoBody]

NoPayload == [kind |-> "none", messages |-> << >>, tools |-> FALSE, stream |-> FALSE]

\* the payload as the upstream receives it: the messages by value
Payload(kind, heap_, req) ==
    [kind |-> kind, messages |-> [i \in DOMAIN req.messages |-> heap_[req.messages[i]]],
     tools |-> req.tools, stream |-> req.stream]

\* the refreshes other requests may run: none of them has begun
NumRefreshers == 2

Refreshers == 1..NumRefreshers

IdleRefresher == [at |-> "idle", items |-> << >>, mapping |-> << >>, i |-> 0]

Unread == [read |-> FALSE, cache |-> << >>]

\* no call of the enforcer yet
InitEnforcer ==
    /\ target_bytes = MAX_UPSTREAM_PAYLOAD_BYTES
    /\ enforced = << >>

\* no upstream stream opened
InitStreams ==
    /\ upstream_lines = << >>
    /\ line_no = 0
    /\ prefix_mode = "none"
    /\ yielded = << >>

InitOthers ==
    /\ refresher = [t \in Refreshers |-> IdleRefresher]
    /\ completed = << >>
    /\ observed = Unread
    /\ InitEnforcer
    /\ InitStreams

InitHandler ==
    /\ pc = "idle"
    /\ upstream_status = 0
    /\ heap = << >>
    /\ prepared_messages = << >>
    /\ messages_loop = << >>
    /\ github_request = [messages |-> << >>, tools |-> FALSE, stream |-> FALSE]
    /\ local_resp = NoBody
    /\ iter = 0
    /\ tool_calls = << >>
    /\ tool_results = << >>
    /\ upstreamCalls = 0
    /\ resends = 0
    /\ sent = NoPayload
    /\ reply = NoReply
    /\ name = None
    /\ args = EmptyDict
    /\ resolvedBy = "none"
    /\ posts = << >>
    /\ refreshes = << >>
    /\ lookups = 0
    /\ executed = << >>

Init ==
    /\ request \in Requests
    /\ InitHandler
    /\ _cache = EmptyMapping
    /\ _last_refresh = 0
    /\ now = NowStart
    /\ InitOthers

(***************************************************************************)
(* chat_completions, non-streaming, local tool orchestration               *)
(***************************************************************************)
\* len(instruction): the system message that lists the declared tools
InstructionLen == 260

InstructionMessage ==
    Message("system", None, Content("tool instruction", InstructionLen))

\* prepare_messages_for_local_ai: a tool-role message becomes a function-role one
prepare_messages_for_local_ai(messages) ==
    [i \in DOMAIN messages |->
        IF messages[i].role = "tool"
        THEN Message("function", messages[i].name, messages[i].content)
        ELSE messages[i]]

\* POST {GITHUB_BASE_URL}/chat/completions with `req` as the body
SendUpstream(kind, heap_, req) ==
    /\ upstreamCalls' = upstreamCalls + 1
    /\ resends' = IF kind \in {"initial_retry", "follow_retry"}
                  THEN resends + 1 ELSE resends
    /\ sent' = Payload(kind, heap_, req)

\* the code from the entry of the handler to its first await: the request is
\* built, trimmed when too large, and posted
Start ==
    /\ pc = "idle"
    /\ Validates(request)
    /\ LET prepared == prepare_messages_for_local_ai(request.messages)
           n        == Len(prepared)
           ids      == [i \in 1..n |-> i]
           h        == IF request.tools THEN Append(prepared, InstructionMessage)
                       ELSE prepared
           req0     == [messages |-> IF request.tools THEN <<n + 1>> \o ids ELSE ids,
                        tools |-> request.tools, stream |-> request.stream]
           req      == TrimIfTooLarge(h, req0)
       IN  /\ heap' = h
           /\ prepared_messages' = ids
           /\ github_request' = req
           /\ SendUpstream("initial", h, req)
    /\ pc' = "initial_post"
    /\ UNCHANGED << request, messages_loop, local_resp, iter, tool_calls,
                    tool_results, reply, now >>
    /\ UNCHANGED toolVars
    /\ UNCHANGED discoveryVars

\* the body fails a validator: the framework answers 422 and
\* chat_completions is not entered
Reject ==
    /\ pc = "idle"
    /\ ~Validates(request)
    /\ reply' = [status |-> 422, kind |-> "validation_error", body |-> NoBody]
    /\ pc' = "rejected"
    /\ UNCHANGED << request, heap, prepared_messages, messages_loop, github_request,
                    local_resp, iter, tool_calls, tool_results, upstreamCalls,
                    resends, sent, now >>
    /\ UNCHANGED toolVars
    /\ UNCHANGED discoveryVars

\* an exception leaves the handler through `except Exception` at its end:
\* HTTPException(status_code=500)
RaiseOut ==
    /\ reply' = [status |-> 500, kind |-> "error", body |-> NoBody]
    /\ pc' = "done"

\* a return that answers with an error instead of the body
ReturnAsError(kind, body) ==
    /\ reply' = [status |-> 500, kind |-> "error", body |-> NoBody]
    /\ pc' = "done"

\* `return JSONResponse(content=..., headers=build_headers())`
Return(kind, body) ==
    /\ reply' = [status |-> 200, kind |-> kind, body |-> body]
    /\ pc' = "done"

\* the answer to the first POST arrives
InitialResponse ==
    /\ pc = "initial_post"
    /\ \E status \in UpstreamStatuses :
         /\ upstream_status' = status
         /\ \/ /\ status = 413
               /\ LET r == _aggressive_trim_request(heap, github_request,
                                                    MAX_UPSTREAM_PAYLOAD_BYTES)
                  IN  /\ heap' = r.heap
                      /\ SendUpstream("initial_retry", r.heap, r.req)
               /\ pc' = "initial_retry"
               /\ UNCHANGED << local_resp, messages_loop, reply >>
            \/ /\ status \notin {200, 413}
               /\ RaiseOut
               /\ UNCHANGED << heap, upstreamCalls, resends, sent, local_resp, messages_loop >>
            \/ /\ status = 200
               /\ \E body \in ModelOutputs : local_resp' = body
               /\ messages_loop' = prepared_messages
               /\ pc' = "loop_head"
               /\ UNCHANGED << heap, upstreamCalls, resends, sent, reply >>
    /\ UNCHANGED << request, prepared_messages, github_request, iter, tool_calls,
                    tool_results, now >>
    /\ UNCHANGED toolVars
    /\ UNCHANGED answerFrame

\* a handler that answers a 413 on the re-send with one more re-send
InitialRetryResponseRetriesAgain ==
    /\ pc = "initial_retry"
    /\ \E status \in UpstreamStatuses :
         /\ upstream_status' = status
         /\ \/ /\ status = 413
               /\ SendUpstream("initial_retry", heap, github_request)
               /\ UNCHANGED << pc, local_resp, messages_loop, reply >>
            \/ /\ status \notin {200, 413}
               /\ RaiseOut
               /\ UNCHANGED << local_resp, messages_loop, upstreamCalls, resends, sent >>
            \/ /\ status = 200
               /\ \E body \in ModelOutputs : local_resp' = body
               /\ messages_loop' = prepared_messages
               /\ pc' = "loop_head"
               /\ UNCHANGED << reply, upstreamCalls, resends, sent >>
    /\ UNCHANGED << request, heap, prepared_messages, github_request, iter,
                    tool_calls, tool_results, now >>
    /\ UNCHANGED toolVars
    /\ UNCHANGED answerFrame

\* the answer to the re-send that followed a 413 arrives
InitialRetryResponse ==
    /\ pc = "initial_retry"
    /\ \E status \in UpstreamStatuses :
         /\ upstream_status' = status
         /\ \/ /\ status # 200
               /\ RaiseOut
               /\ UNCHANGED << local_resp, messages_loop >>
            \/ /\ status = 200
               /\ \E body \in ModelOutputs : local_resp' = body
               /\ messages_loop' = prepared_messages
               /\ pc' = "loop_head"
               /\ UNCHANGED reply
    /\ UNCHANGED << request, heap, prepared_messages, github_request, iter,
                    tool_calls, tool_results, upstreamCalls, resends, sent, now >>
    /\ UNCHANGED toolVars
    /\ UNCHANGED answerFrame

\* the loop with a range one too long
LoopHeadOneMore ==
    /\ pc = "loop_head"
    /\ LET transformed == transform_local_response(local_resp)
           calls       == LoopToolCalls(transformed.choices)
       IN  IF iter > MAX_TOOL_ITERATIONS
           THEN /\ Return("normalized", local_resp)
                /\ UNCHANGED << iter, tool_calls, tool_results >>
           ELSE /\ iter' = iter + 1
                /\ IF calls = << >>
                   THEN /\ Return("normalized", local_resp)
                        /\ UNCHANGED << tool_calls, tool_results >>
                   ELSE /\ tool_calls' = calls
                        /\ tool_results' = << >>
                        /\ pc' = "tool_begin"
                        /\ UNCHANGED reply
    /\ UNCHANGED << request, heap, prepared_messages, messages_loop,
                    github_request, local_resp, upstreamCalls, resends, sent, now >>
    /\ UNCHANGED toolVars
    /\ UNCHANGED discoveryVars

\* the head of `for _ in range(MAX_TOOL_ITERATIONS)`: the response is
\* normalized and its tool calls collected; without any, it is returned;
\* when the range is used up, the last response is returned normalized
LoopHead ==
    /\ pc = "loop_head"
    /\ LET transformed == transform_local_response(local_resp)
           calls       == LoopToolCalls(transformed.choices)
       IN  IF iter >= MAX_TOOL_ITERATIONS
           THEN /\ Return("normalized", local_resp)
                /\ UNCHANGED << iter, tool_calls, tool_results >>
           ELSE /\ iter' = iter + 1
                /\ IF calls = << >>
                   THEN /\ Return("normalized", local_resp)
                        /\ UNCHANGED << tool_calls, tool_results >>
                   ELSE /\ tool_calls' = calls
                        /\ tool_results' = << >>
                        /\ pc' = "tool_begin"
                        /\ UNCHANGED reply
    /\ UNCHANGED << request, heap, prepared_messages, messages_loop,
                    github_request, local_resp, upstreamCalls, resends, sent, now >>
    /\ UNCHANGED toolVars
    /\ UNCHANGED discoveryVars

(***************************************************************************)
(* run_tool_calls_async, ToolHandler.execute_tool, ToolDiscovery           *)
(***************************************************************************)
\* len(content_str) of a tool's answer such as {"result": 5}
ResultLen == 13

\* len('[tool execution failed: ...]')
FailureLen == 60

\* what the handler holds unchanged while a tool call is executed
loopFrame == << request, prepared_messages, messages_loop, github_request,
                local_resp, iter, tool_calls, upstreamCalls, resends, sent >>

\* the locals of one execution of execute_tool
ToolState(n, a, by, p, r, l) ==
    /\ name' = n
    /\ args' = a
    /\ resolvedBy' = by
    /\ posts' = p
    /\ refreshes' = r
    /\ lookups' = l

\* execute_tool suspends in the await `at`
Await(at) ==
    /\ pc' = at
    /\ UNCHANGED << heap, tool_results, reply >>

\* results.insert(0, ...) in place of results.append(...)
PrependFunctionMessage(n, text, len) ==
    /\ heap' = Append(heap, Message("function", n, Content(text, len)))
    /\ tool_results' = <<Len(heap) + 1>> \o tool_results
    /\ pc' = "tool_begin"
    /\ UNCHANGED reply

\* results.append({'role': 'function', 'name': name, 'content': ...}): the
\* result of the call, or the failure marker made from the exception; the
\* loop of run_tool_calls_async goes on
AppendFunctionMessage(n, text, len) ==
    /\ heap' = Append(heap, Message("function", n, Content(text, len)))
    /\ tool_results' = Append(tool_results, Len(heap) + 1)
    /\ pc' = "tool_begin"
    /\ UNCHANGED reply

ToolResultText == "tool result"

UnknownToolText == "[tool execution failed: 400: Unknown tool]"

BadGatewayText == "[tool execution failed: 502]"

\* execute_tool returned
OkCall(n) == AppendFunctionMessage(n, ToolResultText, ResultLen)

\* HTTPException(400, "Unknown tool: ...")
FailUnknown(n) == AppendFunctionMessage(n, UnknownToolText, FailureLen)

\* HTTPException(502, "Tool ... returned error: <status>")
FailStatus(n) == AppendFunctionMessage(n, BadGatewayText, FailureLen)

\* a request error that is not caught by run_tool_calls_async and leaves the
\* handler through its outer `except Exception`
FailRequestUncaught(n) ==
    /\ RaiseOut
    /\ UNCHANGED << heap, tool_results >>

\* HTTPException(502, "Tool execution failed: ...")
FailRequest(n) == AppendFunctionMessage(n, BadGatewayText, FailureLen)

\* client.post(endpoint, json=args, headers=...), and later its answer
PostRecord(url, body, headers) ==
    [url |-> url, body |-> body, headers |-> headers, answer |-> "pending"]

Answered(p, k, outcome) == [p EXCEPT ![k].answer = outcome]

\* a registry lookup that tries the last segment before the exact name
RegistryLookupSegmentFirst(n) ==
    LET alt == LastSegment(n)
    IN  IF RegistryGet(alt) # NoEntry
        THEN [by |-> "registry_segment", entry |-> RegistryGet(alt)]
        ELSE IF RegistryGet(n) # NoEntry
        THEN [by |-> "registry", entry |-> RegistryGet(n)]
        ELSE IF RegistryGet(WithFunctions(alt)) # NoEntry
        THEN [by |-> "registry_functions", entry |-> RegistryGet(WithFunctions(alt))]
        ELSE [by |-> "none", entry |-> NoEntry]

\* step 1 of execute_tool: the static registry, by the exact name, then by
\* the last dot-delimited segment, without and with the functions. prefix
RegistryLookup(n) ==
    IF RegistryGet(n) # NoEntry
    THEN [by |-> "registry", entry |-> RegistryGet(n)]
    ELSE LET alt == LastSegment(n)
         IN  IF RegistryGet(alt) # NoEntry
             THEN [by |-> "registry_segment", entry |-> RegistryGet(alt)]
             ELSE IF RegistryGet(WithFunctions(alt)) # NoEntry
             THEN [by |-> "registry_functions", entry |-> RegistryGet(WithFunctions(alt))]
             ELSE [by |-> "none", entry |-> NoEntry]

\* a refresh that assigns its mapping, empty when the API gave nothing
CacheAfterRefreshAssignsAlways(cache, outcome) ==
    IF outcome.ok THEN MappingOf(outcome.items) ELSE EmptyMapping

\* what refresh leaves in the cache: the mapping it built, or, when the API
\* gave nothing, what was there (it returns before the assignment)
CacheAfterRefresh(cache, outcome) ==
    IF outcome.ok THEN MappingOf(outcome.items) ELSE cache

LastRefreshAfterRefresh(last_refresh, outcome, now_) ==
    IF outcome.ok THEN now_ ELSE last_refresh

\* the GET of refresh returns, and refresh runs to its end
RefreshResult(outcome) ==
    /\ _cache' = CacheAfterRefresh(_cache, outcome)
    /\ _last_refresh' = LastRefreshAfterRefresh(_last_refresh, outcome, now)
    /\ UNCHANGED othersVars

\* a completed refresh: who called it, and whether the API answered
RefreshRecord(by, outcome) == [by |-> by, ok |-> outcome.ok]

\* the end of the first resolution: the lookup of get() in `cache`, then the
\* first POST, or Unknown tool when nothing (or an entry without url) is found
FirstLookup(cache, n, a, r, l) ==
    \/ /\ CacheHits(cache, n) = {}
       /\ ToolState(n, a, "none", << >>, r, l)
       /\ FailUnknown(n)
    \/ \E e \in CacheHits(cache, n) :
         IF EntryUrl(e) # NoUrl
         THEN /\ ToolState(n, a, "cache", <<PostRecord(EntryUrl(e), a, e.headers)>>, r, l)
              /\ Await("tool_post")
         ELSE /\ ToolState(n, a, "none", << >>, r, l)
              /\ FailUnknown(n)

\* the end of the iteration: the results are appended, the request is
\* trimmed when too large, and the follow-up is posted without tools
FinishIteration ==
    LET loop == messages_loop \o tool_results
        req  == TrimIfTooLarge(heap, [github_request EXCEPT !.messages = loop])
        follow_payload2 == [req EXCEPT !.tools = FALSE]
    IN  /\ messages_loop' = loop
        /\ github_request' = req
        /\ SendUpstream("follow", heap, follow_payload2)
        /\ Await("follow_post")
        /\ ToolState(None, EmptyDict, "none", << >>, << >>, 0)
        /\ UNCHANGED executed

\* execute_tool from its entry to its first await, for the next call
BeginCall(call) ==
    LET n   == CallName(call)
        a   == CallArgs(call)
        reg == RegistryLookup(n)
    IN  /\ executed' = Append(executed, [name |-> n, args |-> a])
        /\ UNCHANGED << messages_loop, github_request, upstreamCalls, resends, sent >>
        /\ IF reg.entry.url # NoUrl
           THEN /\ ToolState(n, a, reg.by,
                             <<PostRecord(reg.entry.url, a, reg.entry.headers)>>,
                             << >>, 0)
                /\ Await("tool_post")
           ELSE IF AliasHit(n)
           THEN IF EntryUrl(AliasEntry(n)) # NoUrl
                THEN /\ ToolState(n, a, "alias",
                                  <<PostRecord(EntryUrl(AliasEntry(n)), a,
                                               AliasEntry(n).headers)>>, << >>, 1)
                     /\ Await("tool_post")
                ELSE /\ ToolState(n, a, "none", << >>, << >>, 1)
                     /\ FailUnknown(n)
           ELSE IF IsStale(now, _last_refresh)
           THEN /\ ToolState(n, a, "none", << >>, << >>, 1)
                /\ Await("get_refresh")
           ELSE FirstLookup(_cache, n, a, << >>, 1)

\* the loop of run_tool_calls_async
ToolBegin ==
    /\ pc = "tool_begin"
    /\ IF Len(tool_results) = Len(tool_calls)
       THEN FinishIteration
       ELSE BeginCall(tool_calls[Len(tool_results) + 1])
    /\ UNCHANGED << request, prepared_messages, local_resp, iter, tool_calls, now >>
    /\ UNCHANGED discoveryVars

\* get() had found the cache stale: its refresh returns, the lookup follows
GetRefreshResult ==
    /\ pc = "get_refresh"
    /\ \E outcome \in ApiOutcomes :
         /\ RefreshResult(outcome)
         /\ FirstLookup(CacheAfterRefresh(_cache, outcome), name, args,
                        Append(refreshes, RefreshRecord("get", outcome)), lookups)
    /\ UNCHANGED loopFrame
    /\ UNCHANGED << executed, now >>

\* the retry of execute_tool with the entry the second resolution gave:
\* posting to an entry without url raises before anything is sent
Retry(e) ==
    IF EntryUrl(e) # NoUrl
    THEN /\ posts' = Append(posts, PostRecord(EntryUrl(e), args, e.headers))
         /\ Await("tool_retry_post")
    ELSE /\ FailStatus(name)
         /\ UNCHANGED posts

\* the lookup of the get() that follows the refresh on a 404
LookupRetry(cache) ==
    \/ /\ CacheHits(cache, name) = {}
       /\ FailStatus(name)
       /\ UNCHANGED posts
    \/ \E e \in CacheHits(cache, name) : Retry(e)

\* a first POST whose every error status, not only 404, leads to the retry
ToolPostResultRetryAnyStatus ==
    /\ pc = "tool_post"
    /\ \E outcome \in ToolOutcomes :
         /\ posts' = Answered(posts, 1, outcome)
         /\ \/ /\ outcome = "ok"
               /\ OkCall(name)
            \/ /\ outcome = "500"
               /\ Await("on404_refresh")
            \/ /\ outcome = "request_error"
               /\ FailRequest(name)
            \/ /\ outcome = "404"
               /\ Await("on404_refresh")
    /\ UNCHANGED loopFrame
    /\ UNCHANGED << name, args, resolvedBy, refreshes, lookups, executed, now >>
    /\ UNCHANGED discoveryVars

\* the answer of the tool endpoint to the first POST
ToolPostResult ==
    /\ pc = "tool_post"
    /\ \E outcome \in ToolOutcomes :
         /\ posts' = Answered(posts, 1, outcome)
         /\ \/ /\ outcome = "ok"
               /\ OkCall(name)
            \/ /\ outcome = "500"
               /\ FailStatus(name)
            \/ /\ outcome = "request_error"
               /\ FailRequest(name)
            \/ /\ outcome = "404"
               /\ Await("on404_refresh")
    /\ UNCHANGED loopFrame
    /\ UNCHANGED << name, args, resolvedBy, refreshes, lookups, executed, now >>
    /\ UNCHANGED discoveryVars

\* the refresh that execute_tool called on the 404 returns; get() is called
\* and answers from the alias table, or refreshes when it finds the cache
\* stale, or looks the name up
On404RefreshResult ==
    /\ pc = "on404_refresh"
    /\ \E outcome \in ApiOutcomes :
         /\ RefreshResult(outcome)
         /\ refreshes' = Append(refreshes, RefreshRecord("on404", outcome))
         /\ lookups' = lookups + 1
         /\ IF AliasHit(name)
            THEN Retry(AliasEntry(name))
            ELSE IF IsStale(now, LastRefreshAfterRefresh(_last_refresh, outcome, now))
            THEN /\ Await("on404_get_refresh")
                 /\ UNCHANGED posts
            ELSE LookupRetry(CacheAfterRefresh(_cache, outcome))
    /\ UNCHANGED loopFrame
    /\ UNCHANGED << name, args, resolvedBy, executed, now >>

\* the refresh of that get() returns, the lookup follows
On404GetRefreshResult ==
    /\ pc = "on404_get_refresh"
    /\ \E outcome \in ApiOutcomes :
         /\ RefreshResult(outcome)
         /\ refreshes' = Append(refreshes, RefreshRecord("reget", outcome))
         /\ LookupRetry(CacheAfterRefresh(_cache, outcome))
    /\ UNCHANGED loopFrame
    /\ UNCHANGED << name, args, resolvedBy, lookups, executed, now >>

\* the answer of the tool endpoint to the retry: any failure ends in the
\* HTTPException(502) of the first error
ToolRetryResult ==
    /\ pc = "tool_retry_post"
    /\ \E outcome \in ToolOutcomes :
         /\ posts' = Answered(posts, 2, outcome)
         /\ IF outcome = "ok" THEN OkCall(name) ELSE FailStatus(name)
    /\ UNCHANGED loopFrame
    /\ UNCHANGED << name, args, resolvedBy, refreshes, lookups, executed, now >>
    /\ UNCHANGED discoveryVars

\* the answer to a follow-up POST arrives
FollowResponse ==
    /\ pc = "follow_post"
    /\ \E status \in UpstreamStatuses :
         /\ upstream_status' = status
         /\ \/ /\ status = 413
               /\ LET r == _aggressive_trim_request(heap, github_request,
                                                    MAX_UPSTREAM_PAYLOAD_BYTES)
                  IN  /\ heap' = r.heap
                      /\ SendUpstream("follow_retry", r.heap, r.req)
               /\ pc' = "follow_retry"
               /\ UNCHANGED << local_resp, reply >>
            \/ /\ status \notin {200, 413}
               /\ Return("raw", local_resp)
               /\ UNCHANGED << heap, upstreamCalls, resends, sent, local_resp >>
            \/ /\ status = 200
               /\ \E body \in ModelOutputs : local_resp' = body
               /\ pc' = "loop_head"
               /\ UNCHANGED << heap, upstreamCalls, resends, sent, reply >>
    /\ UNCHANGED << request, prepared_messages, messages_loop, github_request,
                    iter, tool_calls, tool_results, now >>
    /\ UNCHANGED toolVars
    /\ UNCHANGED answerFrame

\* the answer to the re-send that followed a 413 on a follow-up arrives
FollowRetryResponse ==
    /\ pc = "follow_retry"
    /\ \E status \in UpstreamStatuses :
         /\ upstream_status' = status
         /\ \/ /\ status # 200
               /\ Return("raw", local_resp)
               /\ UNCHANGED local_resp
            \/ /\ status = 200
               /\ \E body \in ModelOutputs : local_resp' = body
               /\ pc' = "loop_head"
               /\ UNCHANGED reply
    /\ UNCHANGED << request, heap, prepared_messages, messages_loop,
                    github_request, iter, tool_calls, tool_results, upstreamCalls,
                    resends, sent, now >>
    /\ UNCHANGED toolVars
    /\ UNCHANGED answerFrame

\* time passes while the handler awaits a network call
Tick ==
    /\ pc \notin {"idle", "done", "loop_head", "tool_begin"}
    /\ now < MaxNow
    /\ now' = now + 1
    /\ UNCHANGED << pc, heap, tool_results, reply >>
    /\ UNCHANGED loopFrame
    /\ UNCHANGED toolVars
    /\ UNCHANGED discoveryVars

Next ==
    \/ Start
    \/ Reject
    \/ InitialResponse
    \/ InitialRetryResponse
    \/ LoopHead
    \/ ToolBegin
    \/ GetRefreshResult
    \/ ToolPostResult
    \/ On404RefreshResult
    \/ On404GetRefreshResult
    \/ ToolRetryResult
    \/ FollowResponse
    \/ FollowRetryResponse
    \/ Tick

Spec == Init /\ [][Next]_vars

(***************************************************************************)
(* One execution of execute_tool, for any tool name and any state of the   *)
(* discovery: the handler stands where LoopHead leaves it when the model   *)
(* answered the first request with one structured call.                    *)
(***************************************************************************)
B_call(n) == ChoicesBody(NullContent, << FunctionCall(n, JsonString(TRUE, ArgsQ)) >>)

\* the discovery as earlier requests may have left it: never refreshed,
\* refreshed just now, refreshed longer than ttl ago
DiscoveryStates ==
    { [cache |-> EmptyMapping, last_refresh |-> 0],
      [cache |-> MappingOf(WorkflowsA), last_refresh |-> NowStart],
      [cache |-> MappingOf(WorkflowsB), last_refresh |-> NowStart - ttl - 1] }

InitTool ==
    /\ pc = "tool_begin"
    /\ request = Rq_tools
    /\ heap = Append(prepare_messages_for_local_ai(Rq_tools.messages), InstructionMessage)
    /\ prepared_messages = <<1>>
    /\ messages_loop = <<1>>
    /\ github_request = [messages |-> <<2, 1>>, tools |-> TRUE, stream |-> FALSE]
    /\ \E n \in ToolNames :
         /\ local_resp = B_call(n)
         /\ tool_calls = LoopToolCalls(transform_local_response(B_call(n)).choices)
    /\ iter = 1
    /\ tool_results = << >>
    /\ upstreamCalls = 1
    /\ resends = 0
    /\ sent = Payload("initial", heap, github_request)
    /\ reply = NoReply
    /\ upstream_status = 200
    /\ name = None
    /\ args = EmptyDict
    /\ resolvedBy = "none"
    /\ posts = << >>
    /\ refreshes = << >>
    /\ lookups = 0
    /\ executed = << >>
    /\ \E d \in DiscoveryStates :
         /\ _cache = d.cache
         /\ _last_refresh = d.last_refresh
    /\ now = NowStart
    /\ InitOthers

NextTool ==
    \/ ToolBegin
    \/ GetRefreshResult
    \/ ToolPostResult
    \/ On404RefreshResult
    \/ On404GetRefreshResult
    \/ ToolRetryResult
    \/ Tick

SpecTool == InitTool /\ [][NextTool]_vars

(***************************************************************************)
(* ToolDiscovery.refresh and ToolDiscovery.get called by several requests  *)
(* at once.  A refresh is taken statement by statement: the GET, each turn *)
(* of `for wf in items`, the assignment of self._cache; a call of get may  *)
(* read the cache between any two of them.                                 *)
(***************************************************************************)
\* the request at hand stands still meanwhile
handlerFrame == << pc, request, heap, prepared_messages, messages_loop,
                   github_request, local_resp, iter, tool_calls, tool_results,
                   upstreamCalls, resends, sent, reply, name, args, resolvedBy,
                   posts, refreshes, lookups, executed, now,
                   enforcerVars, streamVars, upstream_status >>

\* `mapping: Dict = {}`, then the GET is awaited
RefreshStart(t) ==
    /\ refresher[t].at = "idle"
    /\ refresher' = [refresher EXCEPT ![t] =
                        [at |-> "fetching", items |-> << >>,
                         mapping |-> EmptyMapping, i |-> 0]]
    /\ UNCHANGED << _cache, _last_refresh, completed, observed >>
    /\ UNCHANGED handlerFrame

\* the GET returns: on an error refresh returns its empty mapping, else it
\* goes on to the loop over the workflows
RefreshFetched(t) ==
    /\ refresher[t].at = "fetching"
    /\ \E outcome \in ApiOutcomes :
         IF outcome.ok
         THEN /\ refresher' = [refresher EXCEPT ![t].at = "building",
                                                ![t].items = outcome.items,
                                                ![t].i = 1]
              /\ UNCHANGED completed
         ELSE /\ refresher' = [refresher EXCEPT ![t] =
                                  [IdleRefresher EXCEPT !.at = "done"]]
              /\ completed' = Append(completed, outcome)
    /\ UNCHANGED << _cache, _last_refresh, observed >>
    /\ UNCHANGED handlerFrame

\* a turn of the loop that writes into the dictionary the cache refers to
StoreBuiltInCache(t, m) ==
    /\ refresher' = [refresher EXCEPT ![t].mapping = m, ![t].i = @ + 1]
    /\ _cache' = m

\* `mapping[v] = entry`: the turn of the loop wrote into the local mapping
StoreBuilt(t, m) ==
    /\ refresher' = [refresher EXCEPT ![t].mapping = m, ![t].i = @ + 1]
    /\ UNCHANGED _cache

\* one turn of `for wf in items`
RefreshRegister(t) ==
    /\ refresher[t].at = "building"
    /\ refresher[t].i <= Len(refresher[t].items)
    /\ StoreBuilt(t, RegisterWorkflow(refresher[t].mapping,
                                      refresher[t].items[refresher[t].i]))
    /\ UNCHANGED << _last_refresh, completed, observed >>
    /\ UNCHANGED handlerFrame

\* `self._cache = mapping; self._last_refresh = int(time.time())`
RefreshSwap(t) ==
    /\ refresher[t].at = "building"
    /\ refresher[t].i > Len(refresher[t].items)
    /\ _cache' = refresher[t].mapping
    /\ _last_refresh' = now
    /\ completed' = Append(completed, ApiOk(refresher[t].items))
    /\ refresher' = [refresher EXCEPT ![t] = [IdleRefresher EXCEPT !.at = "done"]]
    /\ UNCHANGED observed
    /\ UNCHANGED handlerFrame

\* `for c in candidates: if c in self._cache: return self._cache[c]`
ReaderGet ==
    /\ observed' = [read |-> TRUE, cache |-> _cache]
    /\ UNCHANGED << _cache, _last_refresh, refresher, completed >>
    /\ UNCHANGED handlerFrame

InitCache ==
    /\ request = Rq_tools
    /\ InitHandler
    /\ \E d \in DiscoveryStates :
         /\ _cache = d.cache
         /\ _last_refresh = d.last_refresh
    /\ now = NowStart
    /\ InitOthers

NextCache ==
    \/ \E t \in Refreshers : RefreshStart(t)
    \/ \E t \in Refreshers : RefreshFetched(t)
    \/ \E t \in Refreshers : RefreshRegister(t)
    \/ \E t \in Refreshers : RefreshSwap(t)
    \/ ReaderGet

SpecCache == InitCache /\ [][NextCache]_vars

(***************************************************************************)
(* _aggressive_trim_request on its own: a request and a ceiling are drawn, *)
(* the enforcer is called on the request, then on what it returned.        *)
(***************************************************************************)
MaxMessages == 3

ContentLens == {100, 130, 300, 2000}

Ceilings == {150, 253, 400, 700, 1500}

EnforcerMessages ==
    {Message(r, None, Content("m", n)) : r \in {"system", "user"}, n \in ContentLens}
    \cup {Message("user", None, BytesContent)}

EnforcerHeaps ==
    UNION {[1..n -> EnforcerMessages] : n \in 0..MaxMessages}

\* one call: the request it got, the message dicts before and after, the
\* request it returned and the stage it returned from
EnforcerCall(heap_, req, target) ==
    LET r == _aggressive_trim_request(heap_, req, target)
    IN  [input |-> req, before |-> heap_, req |-> r.req, heap |-> r.heap,
         stage |-> r.stage]

InitEnforce ==
    /\ pc = "enforce"
    /\ upstream_status = 0
    /\ request = Rq_tools
    /\ prepared_messages = << >>
    /\ messages_loop = << >>
    /\ local_resp = NoBody
    /\ iter = 0
    /\ tool_calls = << >>
    /\ tool_results = << >>
    /\ upstreamCalls = 0
    /\ resends = 0
    /\ sent = NoPayload
    /\ reply = NoReply
    /\ name = None
    /\ args = EmptyDict
    /\ resolvedBy = "none"
    /\ posts = << >>
    /\ refreshes = << >>
    /\ lookups = 0
    /\ executed = << >>
    /\ heap \in EnforcerHeaps
    /\ github_request \in
         {[messages |-> [i \in DOMAIN heap |-> i], tools |-> t, stream |-> FALSE] :
            t \in BOOLEAN}
    /\ _cache = EmptyMapping
    /\ _last_refresh = 0
    /\ now = NowStart
    /\ refresher = [t \in Refreshers |-> IdleRefresher]
    /\ completed = << >>
    /\ observed = Unread
    /\ target_bytes \in Ceilings
    /\ enforced = << >>
    /\ InitStreams

enforceFrame == << pc, request, prepared_messages, messages_loop, github_request,
                   local_resp, iter, tool_calls, tool_results, upstreamCalls,
                   resends, sent, reply, toolVars, _cache, _last_refresh, now,
                   refresher, completed, observed, target_bytes, streamVars,
                   upstream_status >>

\* trimmed = _aggressive_trim_request(github_request, target_bytes)
EnforceOnce ==
    /\ enforced = << >>
    /\ LET c == EnforcerCall(heap, github_request, target_bytes)
       IN  /\ enforced' = << c >>
           /\ heap' = c.heap
    /\ UNCHANGED enforceFrame

\* _aggressive_trim_request(trimmed, target_bytes)
EnforceAgain ==
    /\ Len(enforced) = 1
    /\ LET c == EnforcerCall(heap, enforced[1].req, target_bytes)
       IN  /\ enforced' = Append(enforced, c)
           /\ heap' = c.heap
    /\ UNCHANGED enforceFrame

NextEnforce ==
    \/ EnforceOnce
    \/ EnforceAgain

SpecEnforce == InitEnforce /\ [][NextEnforce]_vars

(***************************************************************************)
(* The stream relay of chat_completions: generate().  A line of the        *)
(* upstream stream is blank, or has a body after an optional `data:`       *)
(* prefix: the text [DONE], a JSON payload, or a text json.loads rejects.  *)
(* A payload carries its choices as `message` (what generate reads) or as  *)
(* `delta`.                                                                *)
(***************************************************************************)
Line(kind, prefix, payload) == [kind |-> kind, prefix |-> prefix, payload |-> payload]

BlankLine == Line("blank", FALSE, NoBody)

DoneLine(prefix) == Line("done", prefix, NoBody)

TextLine(prefix) == Line("text", prefix, NoBody)

JsonLine(prefix, payload) == Line("json", prefix, payload)

\* {'choices': [{'delta': {'content': ...}}]}
DeltaBody(content) == [shape |-> "delta", content |-> content, tool_calls |-> << >>]

\* piece k of the n pieces a chunked text holds of one object
Fragment(k, n, object) == [kind |-> "fragment", k |-> k, n |-> n, object |-> object]

EmbeddedCall == ObjectPart(TRUE, TRUE, FALSE, ToolCallObject(N_add, ArgsAB))

P_text == ChoicesBody(Text(<<Prose>>), << >>)

\* a structured call of Joke_API, and in the text a fenced call of add
P_calls ==
    ChoicesBody(Text(<<Prose, EmbeddedCall>>),
                << FunctionCall(N_Joke_API, JsonString(TRUE, ArgsQ)) >>)

P_embedded == ChoicesBody(Text(<<Prose, EmbeddedCall>>), << >>)

P_frag1 == ChoicesBody(Text(<<Prose, Fragment(1, 2, EmbeddedCall)>>), << >>)

P_frag2 == ChoicesBody(Text(<<Fragment(2, 2, EmbeddedCall), Prose>>), << >>)

P_delta == DeltaBody(Text(<<EmbeddedCall>>))

StreamPayloads == {P_text, P_calls, P_embedded, P_frag1, P_frag2, P_delta}

\* the lines of a stream in one format: server-sent events, or bare lines
LinesOf(prefix) ==
    {JsonLine(prefix, p) : p \in StreamPayloads}
    \cup {TextLine(prefix), BlankLine}
    \cup (IF prefix THEN {DoneLine(TRUE)} ELSE {})

MaxLines == 3

\* a stream that begins in one format and goes on with a line of the other
MixedStreams ==
    {<< JsonLine(prefix, P_text), later >> :
        prefix \in BOOLEAN,
        later \in {JsonLine(TRUE, P_text), JsonLine(FALSE, P_text),
                   JsonLine(TRUE, P_embedded), JsonLine(FALSE, P_embedded),
                   TextLine(TRUE), TextLine(FALSE)}}

UpstreamStreams ==
    UNION {[1..n -> LinesOf(prefix)] : n \in 0..MaxLines, prefix \in BOOLEAN}
    \cup MixedStreams

\* a chunk the caller receives: a relayed line (which one, and the newlines
\* put after it), 'data: [DONE]', the final chunk made from the follow-up,
\* or the failure marker
Chunk(kind, at, sep, body) == [kind |-> kind, at |-> at, sep |-> sep, body |-> body]

\* prefix_mode after the line: set by the first line that is not blank
PrefixModeAfter(mode, line) ==
    IF mode # "none" THEN mode
    ELSE IF line.prefix THEN "sse" ELSE "raw"

\* the payload generate gets from a line: json.loads of what follows the
\* prefix in sse mode, of the whole line otherwise; NoBody for None
PayloadOf(mode, line) ==
    IF mode = "sse" /\ line.prefix
    THEN IF line.kind = "json" THEN line.payload ELSE NoBody
    ELSE IF line.kind = "json" /\ ~line.prefix THEN line.payload ELSE NoBody

\* the tool calls generate collects from a payload: of each choice's
\* `message`, the structured calls, then those read from its text
StreamToolCalls(payload) ==
    IF payload.shape = "choices"
    THEN payload.tool_calls
         \o (IF ~payload.content.null THEN extract_tool_calls(payload.content)
             ELSE << >>)
    ELSE << >>

\* tool calls were found and the chunk is relayed all the same
DetectedAndRelayed(calls, k, mode) ==
    /\ tool_calls' = calls
    /\ pc' = "tool_begin"
    /\ yielded' = Append(yielded, Chunk("line", k, IF mode = "sse" THEN 2 ELSE 1, NoBody))

\* `if tool_calls and not PROXY_TOOL_PASSTHROUGH`: run_tool_calls_async is
\* entered, the chunk is not relayed
Detected(calls, k, mode) ==
    /\ tool_calls' = calls
    /\ pc' = "tool_begin"
    /\ UNCHANGED yielded

\* `yield line + ('\n' if prefix_mode != 'sse' else '\n\n')`
Relayed(k, mode) ==
    /\ yielded' = Append(yielded, Chunk("line", k, IF mode = "sse" THEN 2 ELSE 1, NoBody))
    /\ pc' = "stream_read"
    /\ UNCHANGED tool_calls

Rq_stream == [Rq_tools EXCEPT !.stream = TRUE]

\* generate() begins: the handler has built the request and got the answer
\* to its first POST
InitStream ==
    /\ pc = "stream_post"
    /\ request = Rq_stream
    /\ heap = Append(prepare_messages_for_local_ai(Rq_stream.messages), InstructionMessage)
    /\ prepared_messages = <<1>>
    /\ messages_loop = << >>
    /\ github_request = [messages |-> <<2, 1>>, tools |-> TRUE, stream |-> TRUE]
    /\ local_resp = NoBody
    /\ iter = 0
    /\ tool_calls = << >>
    /\ tool_results = << >>
    /\ upstreamCalls = 1
    /\ resends = 0
    /\ sent = Payload("initial", heap, github_request)
    /\ reply = NoReply
    /\ upstream_status = 200
    /\ name = None
    /\ args = EmptyDict
    /\ resolvedBy = "none"
    /\ posts = << >>
    /\ refreshes = << >>
    /\ lookups = 0
    /\ executed = << >>
    /\ _cache = EmptyMapping
    /\ _last_refresh = 0
    /\ now = NowStart
    /\ InitOthers

streamFrame == << request, heap, prepared_messages, messages_loop, github_request,
                  local_resp, iter, tool_results, reply, now >>

\* client2.stream('POST', ...): the upstream begins to stream
StreamOpen ==
    /\ pc = "stream_post"
    /\ upstream_lines' \in UpstreamStreams
    /\ SendUpstream("stream", heap, github_request)
    /\ pc' = "stream_read"
    /\ UNCHANGED << line_no, prefix_mode, yielded, tool_calls >>
    /\ UNCHANGED streamFrame
    /\ UNCHANGED toolVars
    /\ UNCHANGED << _cache, _last_refresh, refresher, completed, observed, enforcerVars,
                    upstream_status >>

\* one turn of `async for line in stream_resp.aiter_lines()`
StreamLine ==
    /\ pc = "stream_read"
    /\ line_no < Len(upstream_lines)
    /\ line_no' = line_no + 1
    /\ LET line == upstream_lines[line_no + 1]
           mode == PrefixModeAfter(prefix_mode, line)
           calls == StreamToolCalls(PayloadOf(mode, line))
       IN  IF line.kind = "blank"
           THEN UNCHANGED << pc, prefix_mode, yielded, tool_calls >>
           ELSE /\ prefix_mode' = mode
                /\ IF mode = "sse" /\ line.prefix /\ line.kind = "done"
                   THEN /\ yielded' = Append(yielded, Chunk("done", line_no + 1, 2, NoBody))
                        /\ pc' = "stream_closed"
                        /\ UNCHANGED tool_calls
                   ELSE IF calls # << >>
                   THEN Detected(calls, line_no + 1, mode)
                   ELSE Relayed(line_no + 1, mode)
    /\ UNCHANGED << upstream_lines, upstreamCalls, resends, sent >>
    /\ UNCHANGED streamFrame
    /\ UNCHANGED toolVars
    /\ UNCHANGED << _cache, _last_refresh, refresher, completed, observed, enforcerVars,
                    upstream_status >>

\* the upstream stream ends
StreamEnd ==
    /\ pc = "stream_read"
    /\ line_no = Len(upstream_lines)
    /\ pc' = "stream_closed"
    /\ UNCHANGED << upstream_lines, line_no, prefix_mode, yielded, tool_calls,
                    upstreamCalls, resends, sent >>
    /\ UNCHANGED streamFrame
    /\ UNCHANGED toolVars
    /\ UNCHANGED << _cache, _last_refresh, refresher, completed, observed, enforcerVars,
                    upstream_status >>

\* run_tool_calls_async returned: the follow-up is posted, not streamed and
\* without tools, with the prepared messages and the results
StreamFollowUp ==
    /\ SendUpstream("stream_follow", heap,
                    [github_request EXCEPT !.messages = prepared_messages \o tool_results,
                                           !.stream = FALSE, !.tools = FALSE])
    /\ Await("stream_follow_post")
    /\ ToolState(None, EmptyDict, "none", << >>, << >>, 0)
    /\ UNCHANGED << executed, messages_loop, github_request >>

\* the loop of run_tool_calls_async, called by generate
StreamToolBegin ==
    /\ pc = "tool_begin"
    /\ IF Len(tool_results) = Len(tool_calls)
       THEN StreamFollowUp
       ELSE BeginCall(tool_calls[Len(tool_results) + 1])
    /\ UNCHANGED << request, prepared_messages, local_resp, iter, tool_calls, now >>
    /\ UNCHANGED discoveryVars

\* the answer to the follow-up: the final chunk made from it, or, when
\* raise_for_status raises, the failure marker; then `break`
StreamFollowResponse ==
    /\ pc = "stream_follow_post"
    /\ \E status \in UpstreamStatuses :
         /\ upstream_status' = status
         /\ IF status = 200
            THEN \E body \in ModelOutputs :
                   yielded' = Append(yielded,
                       Chunk("final", line_no, IF prefix_mode = "sse" THEN 2 ELSE 1,
                             transform_local_response(body)))
            ELSE yielded' = Append(yielded,
                       Chunk("error", line_no, IF prefix_mode = "sse" THEN 2 ELSE 1, NoBody))
    /\ pc' = "stream_closed"
    /\ UNCHANGED << upstream_lines, line_no, prefix_mode, tool_calls,
                    upstreamCalls, resends, sent >>
    /\ UNCHANGED streamFrame
    /\ UNCHANGED toolVars
    /\ UNCHANGED << _cache, _last_refresh, refresher, completed, observed, enforcerVars >>

NextStream ==
    \/ StreamOpen
    \/ StreamLine
    \/ StreamEnd
    \/ StreamToolBegin
    \/ GetRefreshResult
    \/ ToolPostResult
    \/ On404RefreshResult
    \/ On404GetRefreshResult
    \/ ToolRetryResult
    \/ StreamFollowResponse

SpecStream == InitStream /\ [][NextStream]_vars

(***************************************************************************)
(* chat_completions with PROXY_TOOL_PASSTHROUGH set: the request is        *)
(* forwarded without its tools, and a streaming answer is relayed by       *)
(* passthrough_stream.                                                     *)
(***************************************************************************)
\* the drop_oldest trimming of the passthrough branch: when every
\* non-system message was dropped, a copy of the last one, cut to 120
\* characters, is put back
PassTrimIfTooLarge(heap_, req) ==
    IF PayloadSize(heap_, req) > MAX_UPSTREAM_PAYLOAD_BYTES
       /\ TRIM_MESSAGES_STRATEGY = "drop_oldest"
    THEN LET preserved_system == SelectSeq(req.messages, LAMBDA i : IsSystem(heap_, i))
             original_non_system == SelectSeq(req.messages, LAMBDA i : ~IsSystem(heap_, i))
             non_system == DropOldest(heap_, req, preserved_system, original_non_system,
                                      MAX_UPSTREAM_PAYLOAD_BYTES)
         IN  IF non_system = << >> /\ original_non_system # << >>
             THEN LET m == heap_[original_non_system[Len(original_non_system)]]
                      last == IF ContentLen(m.content) > LastResortCap
                              THEN [m EXCEPT !.content = Truncate(@, LastResortCap)]
                              ELSE m
                  IN  [heap |-> Append(heap_, last),
                       req |-> [req EXCEPT !.messages =
                                   preserved_system \o <<Len(heap_) + 1>>]]
             ELSE [heap |-> heap_,
                   req |-> [req EXCEPT !.messages = preserved_system \o non_system]]
    ELSE [heap |-> heap_, req |-> req]

PassRequests == {Rq_tools, Rq_stream, [Rq_huge EXCEPT !.stream = TRUE]}

InitPass ==
    /\ request \in PassRequests
    /\ InitHandler
    /\ _cache = EmptyMapping
    /\ _last_refresh = 0
    /\ now = NowStart
    /\ InitOthers

passFrame == << prepared_messages, messages_loop, iter, tool_calls, tool_results,
                toolVars, _cache, _last_refresh, now, refresher, completed,
                observed, enforcerVars >>

\* from the entry of the handler to its first await: the messages are
\* copied, the tools are left out (ALLOW_PASSTHROUGH_TOOLS is off), the
\* request is trimmed when too large, and posted
PassStart ==
    /\ pc = "idle"
    /\ Validates(request)
    /\ LET h   == request.messages
           req == [messages |-> [i \in DOMAIN h |-> i], tools |-> FALSE,
                   stream |-> request.stream]
           t   == PassTrimIfTooLarge(h, req)
       IN  /\ heap' = t.heap
           /\ github_request' = t.req
           /\ SendUpstream("initial", t.heap, t.req)
    /\ pc' = "pass_post"
    /\ UNCHANGED << request, local_resp, reply, streamVars, upstream_status >>
    /\ UNCHANGED passFrame

\* what follows the answer the handler keeps: a StreamingResponse over
\* passthrough_stream when the request asked for a stream, else the body,
\* after raise_for_status
PassAnswer(status) ==
    IF request.stream
    THEN /\ reply' = [status |-> 200, kind |-> "stream", body |-> NoBody]
         /\ pc' = "pass_stream_post"
         /\ UNCHANGED local_resp
    ELSE IF status = 200
    THEN \E body \in ModelOutputs :
           /\ local_resp' = body
           /\ Return("raw", body)
    ELSE /\ RaiseOut
         /\ UNCHANGED local_resp

\* the answer to the first POST arrives
PassInitialResponse ==
    /\ pc = "pass_post"
    /\ \E status \in UpstreamStatuses :
         /\ upstream_status' = status
         /\ IF status = 413
            THEN LET r == _aggressive_trim_request(heap, github_request,
                                                   MAX_UPSTREAM_PAYLOAD_BYTES)
                 IN  /\ heap' = r.heap
                     /\ SendUpstream("initial_retry", r.heap, r.req)
                     /\ pc' = "pass_retry"
                     /\ UNCHANGED << local_resp, reply >>
            ELSE /\ PassAnswer(status)
                 /\ UNCHANGED << heap, upstreamCalls, resends, sent >>
    /\ UNCHANGED << request, github_request, streamVars >>
    /\ UNCHANGED passFrame

\* the answer to the re-send that followed a 413 arrives
PassRetryResponse ==
    /\ pc = "pass_retry"
    /\ \E status \in UpstreamStatuses :
         /\ upstream_status' = status
         /\ PassAnswer(status)
    /\ UNCHANGED << request, heap, github_request, upstreamCalls, resends, sent,
                    streamVars >>
    /\ UNCHANGED passFrame

\* passthrough_stream: client2.stream('POST', ...) and raise_for_status,
\* which ends the stream at once on an error status
PassStreamOpen ==
    /\ pc = "pass_stream_post"
    /\ SendUpstream("stream", heap, github_request)
    /\ \E status \in UpstreamStatuses :
         /\ upstream_status' = status
         /\ IF status = 200
            THEN /\ upstream_lines' \in UpstreamStreams
                 /\ pc' = "pass_stream_read"
            ELSE /\ upstream_lines' = << >>
                 /\ pc' = "pass_stream_closed"
    /\ UNCHANGED << request, heap, github_request, local_resp, reply,
                    line_no, prefix_mode, yielded >>
    /\ UNCHANGED passFrame

\* `if line: yield line + '\n'`
PassRelayed(line, k) ==
    IF line.kind # "blank"
    THEN yielded' = Append(yielded, Chunk("line", k, 1, NoBody))
    ELSE UNCHANGED yielded

\* one turn of `async for line in stream_resp.aiter_lines()`
PassLine ==
    /\ pc = "pass_stream_read"
    /\ line_no < Len(upstream_lines)
    /\ line_no' = line_no + 1
    /\ PassRelayed(upstream_lines[line_no + 1], line_no + 1)
    /\ UNCHANGED << pc, request, heap, github_request, local_resp, reply,
                    upstreamCalls, resends, sent, upstream_lines, prefix_mode,
                    upstream_status >>
    /\ UNCHANGED passFrame

\* the upstream stream ends
PassEnd ==
    /\ pc = "pass_stream_read"
    /\ line_no = Len(upstream_lines)
    /\ pc' = "pass_stream_closed"
    /\ UNCHANGED << request, heap, github_request, local_resp, reply,
                    upstreamCalls, resends, sent, streamVars, upstream_status >>
    /\ UNCHANGED passFrame

NextPass ==
    \/ PassStart
    \/ PassInitialResponse
    \/ PassRetryResponse
    \/ PassStreamOpen
    \/ PassLine
    \/ PassEnd

SpecPass == InitPass /\ [][NextPass]_vars

(***************************************************************************)
(* extract_tool_calls on its own: a text is drawn and the function is      *)
(* called on it.  An object whose "tool_call" is a dict has inner braces.  *)
(***************************************************************************)
MaxParts == 2

ExtractParts ==
    {Prose, UnclosedFence}
    \cup {ObjectPart(f, ok, FALSE, ToolCallObject(N_add, ArgsAB)) : f, ok \in BOOLEAN}
    \cup {ObjectPart(FALSE, TRUE, TRUE, TcOther), ObjectPart(FALSE, TRUE, TRUE, TcNone)}

ExtractTexts == UNION {[1..n -> ExtractParts] : n \in 0..MaxParts}

InitExtract ==
    /\ pc = "extract"
    /\ upstream_status = 0
    /\ request = Rq_tools
    /\ heap = << >>
    /\ prepared_messages = << >>
    /\ messages_loop = << >>
    /\ github_request = [messages |-> << >>, tools |-> FALSE, stream |-> FALSE]
    /\ local_resp \in {ContentBody(Text(parts)) : parts \in ExtractTexts}
    /\ iter = 0
    /\ tool_calls = << >>
    /\ tool_results = << >>
    /\ upstreamCalls = 0
    /\ resends = 0
    /\ sent = NoPayload
    /\ reply = NoReply
    /\ name = None
    /\ args = EmptyDict
    /\ resolvedBy = "none"
    /\ posts = << >>
    /\ refreshes = << >>
    /\ lookups = 0
    /\ executed = << >>
    /\ _cache = EmptyMapping
    /\ _last_refresh = 0
    /\ now = NowStart
    /\ InitOthers

\* tool_calls = extract_tool_calls(content)
Extract ==
    /\ pc = "extract"
    /\ tool_calls' = extract_tool_calls(local_resp.content)
    /\ pc' = "extracted"
    /\ UNCHANGED << request, heap, prepared_messages, messages_loop, github_request,
                    local_resp, iter, tool_results, upstreamCalls, resends, sent,
                    reply, now >>
    /\ UNCHANGED toolVars
    /\ UNCHANGED discoveryVars

NextExtract == Extract

SpecExtract == InitExtract /\ [][NextExtract]_vars






(***************************************************************************)
(* The properties                                                          *)
(***************************************************************************)
\* the tool calls the loop collects from a response body
CallsOf(body) == LoopToolCalls(transform_local_response(body).choices)

\* the function message made for the k-th call of the current iteration
ResultMessage(k) == heap[tool_results[k]]

LastResult == heap[tool_results[Len(tool_results)]]

FailureMarkers == {UnknownToolText, BadGatewayText}

\* C1 (as amended): the handler sends at most MAX_TOOL_ITERATIONS + 1
\* chat-completion requests when the re-sends that follow a 413 are left out
\* (the initial call and one follow-up per iteration), each of them is
\* re-sent at most once, and so at most 2 * (MAX_TOOL_ITERATIONS + 1) in all.
C1_UpstreamCallsBounded ==
    /\ upstreamCalls - resends <= MAX_TOOL_ITERATIONS + 1
    /\ resends <= upstreamCalls - resends
    /\ upstreamCalls <= 2 * (MAX_TOOL_ITERATIONS + 1)

\* the model emitted a tool call on every turn and the handler returned
C1_Witness ==
    /\ pc = "done"
    /\ iter = MAX_TOOL_ITERATIONS
    /\ CallsOf(local_resp) # << >>
    /\ upstreamCalls - resends = MAX_TOOL_ITERATIONS + 1

\* C1 (as stated): counting the initial call, the handler sends at most
\* MAX_TOOL_ITERATIONS chat-completion requests to the upstream.
C1_AtMostMaxIterations == upstreamCalls <= MAX_TOOL_ITERATIONS

\* C2: once the iteration cap is reached, the loop returns the last upstream
\* response, normalized, with status 200, and executes none of its tool
\* calls and sends nothing more.
C2_CapReturnsLastResponse ==
    [][(pc = "loop_head" /\ iter >= MAX_TOOL_ITERATIONS)
         => /\ pc' = "done"
            /\ reply' = [status |-> 200, kind |-> "normalized", body |-> local_resp]
            /\ executed' = executed
            /\ upstreamCalls' = upstreamCalls]_vars

\* the cap was reached with tool calls in the last response
C2_Witness ==
    /\ pc = "done"
    /\ iter = MAX_TOOL_ITERATIONS
    /\ CallsOf(local_resp) # << >>
    /\ reply = [status |-> 200, kind |-> "normalized", body |-> local_resp]
    /\ Len(executed) = Len(messages_loop) - Len(prepared_messages)

\* C3: the body of the POST made for a tool call read from the text of a
\* response is the arguments mapping written in the text.
C3_ArgumentsAreThoseWritten ==
    pc = "tool_post" =>
        LET m       == transform_local_response(local_resp).choices[1].message
            k       == Len(tool_results) + 1 - Len(m.tool_calls)
            written == extract_tool_calls(m.content)
        IN  k >= 1 => posts[1].body = written[k]["args"]

\* C4: an iteration with n calls ends with n function messages appended to
\* the conversation, the k-th carrying the name of the k-th call and made by
\* its execution; the conversation only ever grows at its end.
C4_OneMessagePerIntentInOrder ==
    [][/\ \E i \in 0..Len(messages_loop') :
             messages_loop = SubSeq(messages_loop', 1, i)
       /\ (pc = "tool_begin" /\ pc' = "follow_post")
            => /\ Len(tool_results) = Len(tool_calls)
               /\ messages_loop' = messages_loop \o tool_results
               /\ \A k \in DOMAIN tool_calls :
                    /\ ResultMessage(k).role = "function"
                    /\ ResultMessage(k).name = CallName(tool_calls[k])
                    /\ executed[Len(executed) - Len(tool_calls) + k].name
                         = CallName(tool_calls[k])
                    /\ k > 1 => tool_results[k - 1] < tool_results[k]]_vars

\* the second iteration ended, with two calls of different names
C4_Witness ==
    /\ pc = "follow_post"
    /\ iter = 2
    /\ Len(tool_calls) = 2
    /\ CallName(tool_calls[1]) # CallName(tool_calls[2])
    /\ Len(messages_loop) >= Len(prepared_messages) + 3

\* the execution that just ended failed: nothing was resolved, or the last
\* POST was not answered with a success
ExecutionFailed == posts = << >> \/ posts[Len(posts)].answer # "ok"

\* C5: a failed tool call leaves a function message with a failure marker
\* and nothing else: the handler answers with an error only when no tool
\* was executed yet, the later calls of the iteration are executed, and the
\* follow-up is sent with one message per call.
C5_FailureNeverAbortsTurn ==
    /\ reply.kind = "error" => executed = << >>
    /\ (pc = "tool_begin" /\ name # None /\ tool_results # << >>)
         => /\ LastResult.role = "function"
            /\ LastResult.name = name
            /\ IF ExecutionFailed
               THEN LastResult.content.text \in FailureMarkers
               ELSE LastResult.content.text = ToolResultText
    /\ pc \in {"tool_begin", "get_refresh", "tool_post", "on404_refresh",
               "on404_get_refresh", "tool_retry_post", "follow_post"}
         => reply = NoReply
    /\ pc = "follow_post"
         => /\ Len(tool_results) = Len(tool_calls)
            /\ Len(executed) >= Len(tool_calls)
            /\ sent.kind = "follow"

\* the first of two calls failed at the network, the second was executed
\* and the follow-up was sent
C5_Witness ==
    /\ pc = "follow_post"
    /\ Len(tool_calls) = 2
    /\ ResultMessage(1).content.text = BadGatewayText
    /\ executed[Len(executed)].name = CallName(tool_calls[2])

\* C6: one execution POSTs to tool endpoints at most twice, the second time
\* only after the first was answered 404; when the retry fails too, or
\* nothing is resolved for it, the execution has ended with a failure marker.
C6_AtMostOneRetry ==
    /\ Len(posts) <= 2
    /\ Len(posts) = 2 => posts[1].answer = "404"
    /\ (Len(posts) = 2 /\ posts[2].answer \notin {"pending", "ok"})
         => /\ pc = "tool_begin"
            /\ LastResult.content.text = BadGatewayText
    /\ (Len(posts) = 1 /\ posts[1].answer = "404" /\ pc = "tool_begin")
         => LastResult.content.text = BadGatewayText

\* not found twice in a row
C6_Witness ==
    /\ Len(posts) = 2
    /\ posts[1].answer = "404"
    /\ posts[2].answer = "404"
    /\ pc = "tool_begin"

\* the refreshes made after the 404 of the first POST
RefreshesAfterNotFound ==
    SelectSeq(refreshes, LAMBDA r : r.by \in {"on404", "reget"})

\* C7: after a 404, exactly one refresh is made before the retry or the
\* failure, also when it fails.
C7_ExactlyOneRefreshAfterNotFound ==
    (/\ posts # << >>
     /\ posts[1].answer = "404"
     /\ pc \in {"on404_get_refresh", "tool_retry_post", "tool_begin"})
      => Len(RefreshesAfterNotFound) = 1

HasUrl(e) == EntryUrl(e) # NoUrl

FirstPostIs(e) == posts[1].url = EntryUrl(e) /\ posts[1].headers = e.headers

\* C8: when the first POST of an execution is made, its endpoint is that of
\* the first layer that has one for the name, in the order registry by exact
\* name, registry by last segment, registry by functions.<last segment>,
\* alias table, discovery cache; a registry hit was preceded by no call of
\* get and no refresh, an alias hit by no refresh.
C8_ResolutionOrder ==
    pc = "tool_post" =>
        LET seg == LastSegment(name)
        IN  IF HasUrl(RegistryGet(name))
            THEN FirstPostIs(RegistryGet(name)) /\ lookups = 0 /\ refreshes = << >>
            ELSE IF HasUrl(RegistryGet(seg))
            THEN FirstPostIs(RegistryGet(seg)) /\ lookups = 0 /\ refreshes = << >>
            ELSE IF HasUrl(RegistryGet(WithFunctions(seg)))
            THEN /\ FirstPostIs(RegistryGet(WithFunctions(seg)))
                 /\ lookups = 0
                 /\ refreshes = << >>
            ELSE IF AliasHit(name)
            THEN FirstPostIs(AliasEntry(name)) /\ lookups = 1 /\ refreshes = << >>
            ELSE /\ lookups = 1
                 /\ \E e \in CacheHits(_cache, name) : FirstPostIs(e)

\* a name the registry has by its exact name and, with another endpoint, by
\* its last segment, and the alias table too
C8_Witness ==
    /\ pc = "tool_post"
    /\ name = N_math_add
    /\ HasUrl(RegistryGet(LastSegment(name)))
    /\ RegistryGet(LastSegment(name)) # RegistryGet(name)
    /\ AliasHit(name)
    /\ posts[1].url = StaticUrl(N_math_add)

\* a refresh ended in this step, and the workflow API had not answered it
RefreshFailedNow ==
    /\ Len(refreshes') = Len(refreshes) + 1
    /\ ~refreshes'[Len(refreshes')].ok

\* C10: a refresh that the workflow API fails leaves the cache as it was and
\* the handler without an answer; when nothing then matches the name, the
\* execution ends with a failure marker as its function message.
C10_FailedRefreshKeepsCache ==
    [][RefreshFailedNow
         => /\ _cache' = _cache
            /\ reply' = reply
            /\ (/\ CacheHits(_cache', name) = {}
                /\ ~AliasHit(name)
                /\ pc' # "on404_get_refresh")
                 => /\ pc' = "tool_begin"
                    /\ Len(tool_results') = Len(tool_results) + 1
                    /\ heap'[tool_results'[Len(tool_results')]] =
                         Message("function", name,
                                 Content(IF posts = << >> THEN UnknownToolText
                                         ELSE BadGatewayText, FailureLen))]_vars

\* a populated cache survived a failed refresh, and the name was not found
C10_Witness ==
    /\ pc = "tool_begin"
    /\ refreshes # << >>
    /\ ~refreshes[1].ok
    /\ _cache = MappingOf(WorkflowsB)
    /\ name = N_nope
    /\ tool_results # << >>
    /\ LastResult.content.text = UnknownToolText


\* the mappings a refresh builds to its end, and the one of construction
CompleteMappings == {EmptyMapping} \cup {MappingOf(items) : items \in Snapshots}

\* the refreshes that ended with an answer of the API
Succeeded == SelectSeq(completed, LAMBDA c : c.ok)

\* the mapping a refresh returns: what it built, or {} when the API failed
MappingBuiltBy(c) == IF c.ok THEN MappingOf(c.items) ELSE EmptyMapping

AllRefreshersDone == \A t \in Refreshers : refresher[t].at = "done"

\* C9 (as amended): the cache, and what a reader got from it, is always a
\* mapping some refresh built to its end (or the one of construction); once
\* a refresh has succeeded, the cache is the mapping of the refresh that
\* succeeded last, whatever failed after it.
C9_CompleteMappingLastSuccessWins ==
    /\ _cache \in CompleteMappings
    /\ observed.read => observed.cache \in CompleteMappings
    /\ Succeeded # << >> => _cache = MappingOf(Succeeded[Len(Succeeded)].items)

\* all refreshes ended, the last of them failed after another had succeeded,
\* and a reader read the cache meanwhile
C9_Witness ==
    /\ AllRefreshersDone
    /\ Succeeded # << >>
    /\ ~completed[Len(completed)].ok
    /\ observed.read
    /\ observed.cache # EmptyMapping

\* C9 (as stated): the same, with the cache, once all refreshes have ended,
\* being the mapping of the refresh that ended last.
C9_LastCompletedWins ==
    /\ _cache \in CompleteMappings
    /\ observed.read => observed.cache \in CompleteMappings
    /\ (AllRefreshersDone /\ completed # << >>)
         => _cache = MappingBuiltBy(completed[Len(completed)])

\* the entries a refresh registered for the node called node_name
EntriesOfNode(cache, node_name) ==
    {cache[k] : k \in {j \in DOMAIN cache : cache[j].node = node_name}}

JokeApiNames == {N_Joke_API, N_joke_dash_api, N_joke_api}

\* C12: when an active workflow node named "Joke API" that can receive
\* external calls has been discovered, resolving "Joke_API", "joke-api" and
\* "joke_api" through the discovery cache all give the same endpoint entry,
\* the one registered for that node: the first POST goes to its endpoint.
C12_NameVariantsGiveTheNodeEntry ==
    ( /\ pc = "tool_post"
      /\ name \in JokeApiNames
      /\ resolvedBy = "cache"
      /\ EntriesOfNode(_cache, N_JokeSpAPI) # {} )
    => \E e \in EntriesOfNode(_cache, N_JokeSpAPI) : FirstPostIs(e)

\* the entries get() can return for the name are all HTTP-call-tool entries
ResolvesToHttpTool(cache, n) ==
    /\ ~HasUrl(RegistryLookup(n).entry)
    /\ ~AliasHit(n)
    /\ CacheHits(cache, n) # {}
    /\ \A e \in CacheHits(cache, n) : e.toolType = "httpRequestTool"

\* C13: a name that resolves to a discovered HTTP-call-tool entry is
\* invocable: its execution makes the network call the entry's own call
\* parameters describe, and does not end as an unknown-tool failure.
C13_HttpToolEntryIsInvocable ==
    ( /\ pc = "tool_begin"
      /\ name # None
      /\ tool_results # << >>
      /\ ResolvesToHttpTool(_cache, name) )
    => /\ posts # << >>
       /\ \E e \in CacheHits(_cache, name) : posts[1].url = e.parameters.url
       /\ LastResult.content.text # UnknownToolText

\* the request a call returned, its messages by value
Returned(c) == Payload("enforced", c.heap, c.req)

\* the request a call was given, its messages by value
Given(c) == Payload("enforced", c.before, c.input)

\* C14: the enforcer is idempotent: called on what it returned, with the
\* same ceiling, it returns that request again; and a request that is within
\* the ceiling is returned with no field and no message changed.
C14_EnforcerIdempotent ==
    /\ \A k \in DOMAIN enforced :
         PayloadSize(enforced[k].before, enforced[k].input) <= target_bytes
           => /\ Returned(enforced[k]) = Given(enforced[k])
              /\ enforced[k].heap = enforced[k].before
    /\ Len(enforced) = 2 => Returned(enforced[2]) = Returned(enforced[1])

\* the first call dropped a message, cut contents, returned above the
\* ceiling, and was called again
C14_Witness ==
    /\ Len(enforced) = 2
    /\ enforced[1].stage = 4
    /\ Len(enforced[1].req.messages) < Len(enforced[1].input.messages)
    /\ enforced[1].heap # enforced[1].before
    /\ PayloadSize(enforced[1].heap, enforced[1].req) > target_bytes

\* C15: when the enforcer returns from a stage other than the last resort
\* (drop-oldest, stepwise truncation, removal of the tools), every system
\* message of the request it returns has the content it had in the input.
C15_SystemContentPreserved ==
    \A k \in DOMAIN enforced :
        enforced[k].stage \in {0, 1, 2, 3} =>
            \A j \in DOMAIN enforced[k].req.messages :
                LET i == enforced[k].req.messages[j]
                IN  enforced[k].heap[i].role = "system"
                      => enforced[k].heap[i].content = enforced[k].before[i].content

\* the sizes the stages can reach from a request: its system messages alone,
\* the tools removed, the contents left as they are or cut at one of the caps
CutAt(c, cap) == IF ContentLen(c) > cap THEN cap ELSE ContentLen(c)

RECURSIVE SumCut(_, _, _)
SumCut(heap_, ids, cap) ==
    IF ids = << >> THEN 0
    ELSE MessageOverhead + CutAt(heap_[Head(ids)].content, cap)
         + SumCut(heap_, Tail(ids), cap)

StageSizes(heap_, req) ==
    LET sys == SelectSeq(req.messages, LAMBDA i : IsSystem(heap_, i))
    IN  {RequestOverhead + SumSizes(heap_, sys)}
        \cup {RequestOverhead + SumCut(heap_, sys, Caps[k]) + TruncMarkerLen * Len(sys)
                : k \in DOMAIN Caps}

\* C17: the enforcer returns a request within the ceiling whenever its
\* stages can reach one; a request it returns above the ceiling has no
\* non-system message left, every content cut to the smallest cap and no
\* tools, and none of the sizes its stages can reach is within the ceiling.
C17_WithinCeilingWhenReachable ==
    \A k \in DOMAIN enforced :
        (/\ Serializable(enforced[k].before, enforced[k].input)
         /\ PayloadSize(enforced[k].heap, enforced[k].req) > target_bytes) =>
            /\ \A j \in DOMAIN enforced[k].req.messages :
                 LET m == enforced[k].heap[enforced[k].req.messages[j]]
                 IN  /\ m.role = "system"
                     /\ ContentLen(m.content) <= Caps[Len(Caps)] + TruncMarkerLen
            /\ ~enforced[k].req.tools
            /\ \A z \in StageSizes(enforced[k].before, enforced[k].input) :
                 z > target_bytes

\* C16: every chat-completion request sent upstream, after the pre-flight
\* trimming, the follow-up trimming or the enforcement on a 413, holds at
\* least one message.
C16_UpstreamRequestHasMessage ==
    sent.kind # "none" => sent.messages # << >>

\* the chunks the caller received before the last one
EarlierChunks == SubSeq(yielded, 1, Len(yielded) - 1)

LastChunk == yielded[Len(yielded)]

\* C18: in the stream relay, once a chunk has yielded tool calls, that chunk
\* and the later upstream chunks are not relayed; all the calls found are
\* executed, in order; exactly one follow-up is sent, not streamed, with the
\* prepared messages and the tool results; exactly one more chunk is
\* emitted, the final chunk made from the follow-up or the failure marker;
\* and the stream is closed.
C18_DetectionEndsRelay ==
    tool_calls # << >> =>
        /\ line_no >= 1
        /\ StreamToolCalls(PayloadOf(prefix_mode, upstream_lines[line_no])) = tool_calls
        /\ upstreamCalls <= 3
        /\ IF pc = "stream_closed"
           THEN /\ executed = [i \in DOMAIN tool_calls |->
                                 [name |-> CallName(tool_calls[i]),
                                  args |-> CallArgs(tool_calls[i])]]
                /\ Len(tool_results) = Len(tool_calls)
                /\ upstreamCalls = 3
                /\ sent = Payload("stream_follow", heap,
                                  [messages |-> prepared_messages \o tool_results,
                                   tools |-> FALSE, stream |-> FALSE])
                /\ yielded # << >>
                /\ LastChunk.kind \in {"final", "error"}
                /\ \A k \in DOMAIN EarlierChunks :
                     EarlierChunks[k].kind = "line" /\ EarlierChunks[k].at < line_no
           ELSE /\ pc \notin {"stream_post", "stream_read"}
                /\ \A k \in DOMAIN yielded :
                     yielded[k].kind = "line" /\ yielded[k].at < line_no

\* two calls were found in a chunk that came after a relayed one and before
\* others; both were executed and the final chunk closed the stream
C18_Witness ==
    /\ pc = "stream_closed"
    /\ Len(tool_calls) = 2
    /\ Len(executed) = 2
    /\ 1 < line_no
    /\ line_no < Len(upstream_lines)
    /\ upstream_lines[line_no + 1].kind = "json"
    /\ Len(yielded) = 2
    /\ LastChunk.kind = "final"

\* the text of the turn so far: what the chunks read so far carried as
\* content of their messages, in order
RECURSIVE AccumulatedParts(_)
AccumulatedParts(k) ==
    IF k = 0 THEN << >>
    ELSE LET payload == PayloadOf(prefix_mode, upstream_lines[k])
         IN  AccumulatedParts(k - 1)
             \o (IF payload.shape = "choices" /\ ~payload.content.null
                 THEN payload.content.parts ELSE << >>)

\* the pieces of an object that follow one another make the object
RECURSIVE Assemble(_)
Assemble(parts) ==
    IF Len(parts) < 2 THEN parts
    ELSE IF /\ parts[1].kind = "fragment" /\ parts[2].kind = "fragment"
            /\ parts[1].k = 1 /\ parts[2].k = 2 /\ parts[1].n = 2
            /\ parts[1].object = parts[2].object
    THEN <<parts[1].object>> \o Assemble(Tail(Tail(parts)))
    ELSE <<Head(parts)>> \o Assemble(Tail(parts))

\* C19: the stream relay detects on the accumulated content of the turn:
\* as soon as the chunks read so far together hold a complete embedded
\* tool-call object, also one that arrived split over several chunks, the
\* relay has detected it.
C19_SplitObjectDetected ==
    ( /\ line_no >= 1
      /\ extract_tool_calls(Text(Assemble(AccumulatedParts(line_no)))) # << >> )
    => tool_calls # << >>

\* C20: in passthrough mode a streaming response relays the upstream stream
\* verbatim: the lines delivered to the caller are the lines received, in
\* order; and no tool call is ever extracted or executed.
C20_PassthroughRelaysVerbatim ==
    /\ tool_calls = << >>
    /\ executed = << >>
    /\ posts = << >>
    /\ pc \in {"pass_stream_read", "pass_stream_closed"} =>
         /\ Len(yielded) = line_no
         /\ \A k \in DOMAIN yielded : yielded[k].kind = "line" /\ yielded[k].at = k

\* a well-formed object {"tool_call": {"name": ..., "arguments": {...}}}
WellFormedCall(part) ==
    part.kind = "object" /\ part.parses /\ part.tool_call.t = "dict"

IntentOf(part) ==
    ("name" :> part.tool_call.v["name"]) @@ ("args" :> part.tool_call.v["arguments"])

\* C21: extract_tool_calls returns the intent of a well-formed object in
\* each surface form: the whole text is the object, the object is inside a
\* fenced json block, the object stands inline in prose; and it returns the
\* empty sequence for a text that holds no such object.
C21_ThreeSurfaceForms ==
    pc = "extracted" =>
        LET parts == local_resp.content.parts
        IN  /\ \A i \in DOMAIN parts :
                 WellFormedCall(parts[i]) =>
                     \E k \in DOMAIN tool_calls : tool_calls[k] = IntentOf(parts[i])
            /\ (\A i \in DOMAIN parts : ~WellFormedCall(parts[i])) => tool_calls = << >>

\* C22: when a response of the upstream, the first or a later one, has no
\* structured tool call and its text yields no intent, the loop returns it
\* normalized at once: no tool is executed and nothing more is sent to the
\* upstream.  So when the model calls one tool and then answers, the caller
\* gets the final message after one tool execution and two upstream requests.
C22_NoIntentReturnsAtOnce ==
    /\ [][(pc = "loop_head" /\ CallsOf(local_resp) = << >>)
            => /\ pc' = "done"
               /\ reply' = [status |-> 200, kind |-> "normalized", body |-> local_resp]
               /\ executed' = executed
               /\ posts' = posts
               /\ upstreamCalls' = upstreamCalls]_vars
    /\ []((/\ pc = "done"
           /\ iter = 2
           /\ Len(tool_calls) = 1
           /\ CallsOf(local_resp) = << >>
           /\ resends = 0)
            => /\ reply = [status |-> 200, kind |-> "normalized", body |-> local_resp]
               /\ Len(executed) = 1
               /\ upstreamCalls = 2)

\* the model called one tool, then answered without a call
C22_Witness ==
    /\ pc = "done"
    /\ iter = 2
    /\ Len(tool_calls) = 1
    /\ Len(executed) = 1
    /\ CallsOf(local_resp) = << >>
    /\ reply.kind = "normalized"
    /\ upstreamCalls = 2

\* the step in which the answer to an upstream request arrives
AnswerArrives(at) == pc \in at /\ now' = now

C24_UpstreamErrorSurfaced ==
    [][(\/ AnswerArrives({"initial_post", "follow_post"})
             /\ upstream_status' \notin {200, 413}
        \/ AnswerArrives({"initial_retry", "follow_retry"})
             /\ upstream_status' # 200)
         => /\ pc' = "done"
            /\ reply'.kind = "error"
            /\ reply'.status = upstream_status']_vars

\* a malformed request: no message, a tool whose type is not function, or a
\* tool without a function name
Malformed(rq) ==
    \/ Len(rq.messages) = 0
    \/ \E i \in DOMAIN rq.decls : rq.decls[i].type # "function"
    \/ \E i \in DOMAIN rq.decls : Len(rq.decls[i].name) = 0

\* C25: a malformed request is rejected before any network call: nothing
\* is sent to the upstream, no tool endpoint is called and no discovery
\* refresh is made, and the caller gets a client error.
C25_MalformedRejectedBeforeNetwork ==
    Malformed(request) =>
        /\ upstreamCalls = 0
        /\ sent = NoPayload
        /\ posts = << >>
        /\ refreshes = << >>
        /\ lookups = 0
        /\ executed = << >>
        /\ pc \in {"idle", "rejected"}
        /\ (pc = "rejected" => reply.status = 422)

\* a request with a tool of another type was turned down
C25_Witness ==
    /\ pc = "rejected"
    /\ request = Rq_retrieval
    /\ reply.status = 422
    /\ upstreamCalls = 0

\* the place of x in a sequence without repetitions
PositionIn(seq, x) == CHOOSE i \in DOMAIN seq : seq[i] = x

\* C26: where messages are trimmed (before the first call, before a
\* follow-up and in stage 1 of the enforcer) the messages that remain stand
\* in the relative order they had before, also when a system message is not
\* at the front.
C26_TrimKeepsRelativeOrder ==
    \A k \in DOMAIN enforced :
        LET out == enforced[k].req.messages
            inp == enforced[k].input.messages
        IN  \A a, b \in DOMAIN out :
                a < b => PositionIn(inp, out[a]) < PositionIn(inp, out[b])

SystemOf(heap_, ids) == SelectSeq(ids, LAMBDA i : IsSystem(heap_, i))

NonSystemOf(heap_, ids) == SelectSeq(ids, LAMBDA i : ~IsSystem(heap_, i))

\* C27: drop-oldest trimming removes no system message, keeps a suffix of
\* the non-system messages, and stops removing as soon as the serialized
\* request is within the ceiling: with one dropped message more it would
\* still be above.
C27_DropOldestKeepsSuffix ==
    \A k \in DOMAIN enforced :
        LET c    == enforced[k]
            sys  == SystemOf(c.before, c.input.messages)
            non  == NonSystemOf(c.before, c.input.messages)
            kept == NonSystemOf(c.before, c.req.messages)
            d    == Len(non) - Len(kept)
            Size(ids) == PayloadSize(c.before, [c.input EXCEPT !.messages = ids])
        IN  c.stage >= 1 =>
              /\ SystemOf(c.before, c.req.messages) = sys
              /\ d >= 0
              /\ kept = SubSeq(non, d + 1, Len(non))
              /\ d > 0 => Size(sys \o SubSeq(non, d, Len(non))) > target_bytes
              /\ kept # << >> => Size(sys \o kept) <= target_bytes

\* the enforcer dropped the oldest of two non-system messages, kept the
\* other and the system message, and returned from stage 1
C27_Witness ==
    /\ enforced # << >>
    /\ enforced[1].stage = 1
    /\ Len(NonSystemOf(enforced[1].before, enforced[1].input.messages)) = 2
    /\ Len(NonSystemOf(enforced[1].before, enforced[1].req.messages)) = 1
    /\ Len(SystemOf(enforced[1].before, enforced[1].req.messages)) = 1

\* C28: a tool call whose POST is answered with an error status other than
\* 404, or fails on the network, ends as a dispatch failure at once: the
\* execution made that one POST to a tool endpoint, no retry and no
\* discovery refresh.
C28_OtherFailuresAreNotRetried ==
    (posts # << >> /\ posts[1].answer \in {"500", "request_error"})
      => /\ Len(posts) = 1
         /\ RefreshesAfterNotFound = << >>
         /\ pc = "tool_begin"
         /\ LastResult.role = "function"
         /\ LastResult.content.text = BadGatewayText

\* the POST to the tool endpoint failed on the network
C28_Witness ==
    /\ Len(posts) = 1
    /\ posts[1].answer = "request_error"
    /\ pc = "tool_begin"
    /\ LastResult.content.text = BadGatewayText

\* C29: a resolution through ToolDiscovery.get triggers a refresh exactly
\* when the name, as given or lower-cased, is not in the alias table and
\* the cache is older than ttl.  An alias hit gives the alias entry and
\* leaves the cache and the time of its last refresh as they were, also
\* when the cache is stale.  After a successful refresh a resolution within
\* ttl triggers none.
C29_RefreshOnlyWhenStaleAndNoAlias ==
    [][lookups' = lookups + 1 =>
         /\ pc' \in {"get_refresh", "on404_get_refresh"}
              <=> (~AliasHit(name') /\ now' - _last_refresh' > ttl)
         /\ AliasHit(name') =>
              /\ posts' # << >>
              /\ posts'[Len(posts')].url = EntryUrl(AliasEntry(name'))
         /\ (AliasHit(name') /\ pc = "tool_begin") =>
              /\ _cache' = _cache
              /\ _last_refresh' = _last_refresh
              /\ refreshes' = << >>
         /\ (pc = "on404_refresh" /\ refreshes'[Len(refreshes')].ok) =>
              pc' # "on404_get_refresh"]_vars

\* a name of the alias table was resolved while the cache was stale
C29_Witness ==
    /\ pc = "tool_post"
    /\ resolvedBy = "alias"
    /\ lookups = 1
    /\ now - _last_refresh > ttl
    /\ refreshes = << >>

\* the registrations a pass has made when it stands before the i-th
\* workflow: one per node of an active workflow, as <<workflow, node>>
RegistrationsDone(items, i) ==
    UNION {{<<w, n>> : n \in DOMAIN items[w].nodes} :
             w \in {x \in 1..(i - 1) : items[x].active}}

\* iteration order of `for wf in items: for node in nodes`
RegisteredBefore(p, q) == p[1] < q[1] \/ (p[1] = q[1] /\ p[2] < q[2])

\* what each node registers when nothing was registered before it
AloneTable ==
    [items \in Snapshots |->
        [w \in DOMAIN items |->
            [n \in DOMAIN items[w].nodes |->
                RegisterNode(EmptyMapping, items[w], items[w].nodes[n])]]]

RegisteredAlone(items, p) == AloneTable[items][p[1]][p[2]]

Producers(items, i, v) ==
    {p \in RegistrationsDone(items, i) : v \in DOMAIN RegisteredAlone(items, p)}

FirstProducer(items, i, v) ==
    CHOOSE p \in Producers(items, i, v) :
        \A q \in Producers(items, i, v) : q = p \/ RegisteredBefore(p, q)

\* every name variant produced so far, with the entry of its first producer
FirstWins(items, i) ==
    [v \in UNION {DOMAIN RegisteredAlone(items, p) : p \in RegistrationsDone(items, i)}
       |-> RegisteredAlone(items, FirstProducer(items, i, v))[v]]

FirstWinsTable ==
    [items \in Snapshots |-> [i \in 1..(Len(items) + 1) |-> FirstWins(items, i)]]

\* C30: within one refresh pass, a name variant that several registrations
\* produce holds the entry of the registration made first in the order of
\* the workflows and their nodes; a later registration does not overwrite.
C30_FirstRegistrationWins ==
    \A t \in Refreshers :
        refresher[t].at = "building" =>
            refresher[t].mapping = FirstWinsTable[refresher[t].items][refresher[t].i]

\* a pass has gone through all workflows, and two of its registrations
\* produced the same name variant with different entries
C30_Witness ==
    \E t \in Refreshers :
        /\ refresher[t].at = "building"
        /\ refresher[t].items = WorkflowsA
        /\ refresher[t].i > Len(WorkflowsA)
        /\ \E v \in DOMAIN refresher[t].mapping :
               \E p, q \in Producers(WorkflowsA, refresher[t].i, v) :
                   /\ RegisteredBefore(p, q)
                   /\ RegisteredAlone(WorkflowsA, p)[v] # RegisteredAlone(WorkflowsA, q)[v]

\* a candidate that is not a tool call: text that json.loads turns down
MalformedCandidate(part) ==
    part.kind = "unclosed_fence" \/ (part.kind = "object" /\ ~part.parses)

\* C32: extract_tool_calls raises for no input, and a malformed candidate
\* does not abort the others: for a text with a malformed candidate and a
\* well-formed one, in any order and surface form, the result holds the
\* intent of the well-formed one and nothing for the malformed one.
C32_MalformedCandidateSkipped ==
    pc = "extracted" =>
        LET parts == local_resp.content.parts
        IN  (\E i \in DOMAIN parts : MalformedCandidate(parts[i])) =>
              /\ \A i \in DOMAIN parts :
                     WellFormedCall(parts[i]) =>
                         \E k \in DOMAIN tool_calls : tool_calls[k] = IntentOf(parts[i])
              /\ \A k \in DOMAIN tool_calls :
                     \E i \in DOMAIN parts :
                         WellFormedCall(parts[i]) /\ tool_calls[k] = IntentOf(parts[i])


AfterTruncateStage(c) ==
    IF c.req.messages = << >> THEN c.before
    ELSE TruncateStage(c.before, [c.req EXCEPT !.tools = c.input.tools], Caps,
                       target_bytes).heap

\* C34: a call of the enforcer that goes past stage 1 returns a request with
\* no non-system message; the stages after stage 1 change the content of
\* system messages only, and the last-resort stage changes no message.
C34_PastStageOneOnlySystem ==
    \A k \in DOMAIN enforced :
        enforced[k].stage >= 2 =>
            /\ NonSystemOf(enforced[k].heap, enforced[k].req.messages) = << >>
            /\ \A i \in DOMAIN enforced[k].heap :
                   enforced[k].heap[i] # enforced[k].before[i] =>
                       enforced[k].before[i].role = "system"
            /\ enforced[k].stage = 4 =>
                   enforced[k].heap = AfterTruncateStage(enforced[k])

C34_Witness ==
    \E k \in DOMAIN enforced :
        /\ enforced[k].stage = 4
        /\ NonSystemOf(enforced[k].before, enforced[k].input.messages) # << >>
        /\ enforced[k].heap # enforced[k].before


\* C33: the stream relay sets the framing style at the first line that is
\* not blank and never changes it; a later line is read in that style only,
\* so that in event-prefixed mode a line without the prefix yields no
\* payload and no tool call (and likewise a prefixed line in raw mode); and
\* every chunk the caller receives is framed in that style.
C33_FramingFixedAtFirstLine ==
    /\ [][(pc = "stream_read" /\ line_no' = line_no + 1) =>
            LET line == upstream_lines[line_no + 1]
            IN  /\ prefix_mode # "none" => prefix_mode' = prefix_mode
                /\ (prefix_mode = "none" /\ line.kind # "blank") =>
                       prefix_mode' = IF line.prefix THEN "sse" ELSE "raw"
                /\ (prefix_mode' = "sse" /\ ~line.prefix) => pc' # "tool_begin"
                /\ (prefix_mode' = "raw" /\ line.prefix) => pc' # "tool_begin"]_vars
    /\ [](\A k \in DOMAIN yielded :
             yielded[k].sep = IF prefix_mode = "sse" THEN 2 ELSE 1)


\* C35: a streaming request that is not in passthrough mode and whose stream
\* holds no tool call costs the upstream exactly one chat-completion
\* request, the streamed one.
C35_OneUpstreamRequestWhenStreaming ==
    (pc = "stream_closed" /\ tool_calls = << >>) =>
        /\ upstreamCalls = 1
        /\ sent.kind = "stream"


\* C36: a follow-up request sent after tool execution, the re-send after a
\* 413 on a follow-up included, carries no tools declaration.
C36_FollowUpCarriesNoTools ==
    sent.kind \in {"follow", "follow_retry", "stream_follow"} => ~sent.tools


\* C37: a follow-up request of the tool loop carries the conversation of the
\* initial request followed by the results; budget trimming removes no
\* system message, so when the caller declared tools the system message
\* with the tool instructions, which the initial request began with, is in
\* every follow-up.
C37_FollowUpKeepsInitialConversation ==
    (sent.kind \in {"follow", "stream_follow"} /\ request.tools) =>
        \E k \in DOMAIN sent.messages :
            /\ sent.messages[k].role = "system"
            /\ sent.messages[k].content.text = InstructionMessage.content.text


\* C38: the enforcer leaves the request it was passed as it was: after the
\* call the caller's message list, the content of each of its messages and
\* its tools field are what they were before the call.
C38_EnforcerLeavesArgumentUnchanged ==
    \A k \in DOMAIN enforced :
        Payload("enforced", enforced[k].heap, enforced[k].input) = Given(enforced[k])

=============================================================================
